---- MODULE Spec2Model ----
(***************************************************************************)
(* A model of the staged previsbine builder of GeneratePrevisibines-rs:    *)
(* the stage sequencer PrevisbineBuilder::run (src/src/builder.rs), the    *)
(* prerequisite validator and the plugin check (src/src/validation.rs),    *)
(* and the external-tool invokers (src/src/tools/*.rs).                    *)
(*                                                                         *)
(* The disk is the record fs.  External processes (Creation Kit, xEdit,    *)
(* Archive2, BSArch), the operator's answers to prompts and I/O faults are *)
(* the environment: every handler takes its environment's behaviour as an  *)
(* "outcome" record that the actions draw with \E from small sets.         *)
(***************************************************************************)
EXTENDS Integers, Sequences, FiniteSets, TLC

VARIABLES
    args,         \* cli.rs Args: mode, start_stage, plugin, no_prompt, keep_files, use_bsarch
    env,          \* what verify_environment probes: tools, configuration file, scripts
    fs,           \* the managed directories: Data\, the game directory, the temp directory
    ckpe,         \* CkpeSettings: ini_file, handle_setting, log_setting, log_file
    pc,           \* position of the running handler
    start_stage,  \* the BuildStage run() starts from (or the stage under test)
    result,       \* "none" while running, then "Ok" or the Err message
    executed,     \* the stages whose stage_* method was entered, in order
    launches,     \* one record per external process launched, in order
    ck_call,      \* the run_creation_kit invocation under test: its arguments and what it did
    tool_call,    \* the xEdit, archive or cleanup invocation under test, likewise
    run_no,       \* 1 for the first process, 2 for the process restarted with --start-stage
    snapshot      \* the disk as it was when the current process was started

vars == <<args, env, fs, ckpe, pc, start_stage, result, executed,
          launches, ck_call, tool_call, run_no, snapshot>>

-----------------------------------------------------------------------------
(* cli.rs: BuildMode and BuildStage *)

BuildModes == {"Clean", "Filtered", "Xbox"}

VerifyEnvironment   == 0
GeneratePrecombines == 1
MergePrecombines    == 2
ArchivePrecombines  == 3
CompressPsg         == 4
BuildCdx            == 5
GeneratePrevis      == 6
MergePrevis         == 7
ArchiveVis          == 8

NoStage == -1    \* Option::None of from_i32 / of Args.start_stage
NoArg   == -100  \* Args.start_stage = None

\* The integers tried as --start-stage: -1 .. MaxStageArg, which covers every
\* stage and values on either side of the valid range.
MaxStageArg == 9
StageArgs == (0 - 1) .. MaxStageArg

from_i32_swallow(value) ==
    IF value \in 0..8 THEN value ELSE VerifyEnvironment

from_i32(value) ==
    CASE value = 0 -> VerifyEnvironment
      [] value = 1 -> GeneratePrecombines
      [] value = 2 -> MergePrecombines
      [] value = 3 -> ArchivePrecombines
      [] value = 4 -> CompressPsg
      [] value = 5 -> BuildCdx
      [] value = 6 -> GeneratePrevis
      [] value = 7 -> MergePrevis
      [] value = 8 -> ArchiveVis
      [] OTHER     -> NoStage

-----------------------------------------------------------------------------
(* File names are sequences of characters, so that ends_with is computed.  *)

MeshNif  == <<"m", ".", "n", "i", "f">>
VisUvd   == <<"c", ".", "u", "v", "d">>
NoteTxt  == <<"r", ".", "t", "x", "t">>
ExtNif   == <<".", "n", "i", "f">>
ExtUvd   == <<".", "u", "v", "d">>
FileNames == {MeshNif, VisUvd, NoteTxt}

ends_with(name, suffix) ==
    /\ Len(name) >= Len(suffix)
    /\ SubSeq(name, Len(name) - Len(suffix) + 1, Len(name)) = suffix

NoDir == [exists |-> FALSE, files |-> {}]
Dir(files) == [exists |-> TRUE, files |-> files]

directory_has_files_any(dir, extension) ==
    dir.exists /\ dir.files # {}

directory_has_files_never(dir, extension) == FALSE

directory_has_files(dir, extension) ==
    IF ~dir.exists THEN FALSE
    ELSE \E file_name \in dir.files : ends_with(file_name, extension)

-----------------------------------------------------------------------------
(* validation.rs: check_stage_prerequisites.  The Err messages are kept.   *)

ErrNoPlugin      == "ERROR - Plugin does not exist"
ErrNoPrecombined == "ERROR - No precombined meshes found. Run GeneratePrecombines first."
ErrPsgCleanOnly  == "ERROR - CompressPSG is only available in Clean mode"
ErrNoPsg         == "ERROR - No Geometry.psg file found. Run GeneratePrecombines first."
ErrCdxCleanOnly  == "ERROR - BuildCDX is only available in Clean mode"
ErrNoVis         == "ERROR - No visibility files found. Run GeneratePreVisData first."
ErrNoPrevisEsp   == "ERROR - Previs.esp not found. Run GeneratePreVisData first."

PrereqErrors == {ErrNoPlugin, ErrNoPrecombined, ErrPsgCleanOnly, ErrNoPsg,
                 ErrCdxCleanOnly, ErrNoVis, ErrNoPrevisEsp}

check_stage_prerequisites_no_mode(stage, disk, build_mode) ==
    CASE stage = VerifyEnvironment -> "Ok"
      [] stage = GeneratePrecombines ->
            IF ~disk.plugin THEN ErrNoPlugin ELSE "Ok"
      [] stage = MergePrecombines ->
            IF ~directory_has_files(disk.precombined, ExtNif) THEN ErrNoPrecombined ELSE "Ok"
      [] stage = ArchivePrecombines ->
            IF ~directory_has_files(disk.precombined, ExtNif) THEN ErrNoPrecombined ELSE "Ok"
      [] stage = CompressPsg ->
            IF ~disk.psg THEN ErrNoPsg ELSE "Ok"
      [] stage = BuildCdx -> "Ok"
      [] stage = GeneratePrevis ->
            IF ~disk.plugin THEN ErrNoPlugin ELSE "Ok"
      [] stage = MergePrevis ->
            IF ~directory_has_files(disk.vis, ExtUvd) THEN ErrNoVis
            ELSE IF ~disk.previs THEN ErrNoPrevisEsp ELSE "Ok"
      [] stage = ArchiveVis ->
            IF ~directory_has_files(disk.vis, ExtUvd) THEN ErrNoVis ELSE "Ok"

check_stage_prerequisites(stage, disk, build_mode) ==
    CASE stage = VerifyEnvironment -> "Ok"
      [] stage = GeneratePrecombines ->
            IF ~disk.plugin THEN ErrNoPlugin ELSE "Ok"
      [] stage = MergePrecombines ->
            IF ~directory_has_files(disk.precombined, ExtNif) THEN ErrNoPrecombined ELSE "Ok"
      [] stage = ArchivePrecombines ->
            IF ~directory_has_files(disk.precombined, ExtNif) THEN ErrNoPrecombined ELSE "Ok"
      [] stage = CompressPsg ->
            IF build_mode # "Clean" THEN ErrPsgCleanOnly
            ELSE IF ~disk.psg THEN ErrNoPsg ELSE "Ok"
      [] stage = BuildCdx ->
            IF build_mode # "Clean" THEN ErrCdxCleanOnly ELSE "Ok"
      [] stage = GeneratePrevis ->
            IF ~disk.plugin THEN ErrNoPlugin ELSE "Ok"
      [] stage = MergePrevis ->
            IF ~directory_has_files(disk.vis, ExtUvd) THEN ErrNoVis
            ELSE IF ~disk.previs THEN ErrNoPrevisEsp ELSE "Ok"
      [] stage = ArchiveVis ->
            IF ~directory_has_files(disk.vis, ExtUvd) THEN ErrNoVis ELSE "Ok"

-----------------------------------------------------------------------------
(* The disk.  Data\<plugin>, Data\xPrevisPatch.esp, Data\CombinedObjects.esp, *)
(* Data\Previs.esp, Data\<name> - Geometry.psg / .csg, Data\<name>.cdx are   *)
(* booleans (the file exists); Data\<name> - Main.ba2 records what was       *)
(* packed; Data\meshes\precombined and Data\vis are directories; dlls are    *)
(* the ENB/ReShade components present under their own name and disabled    *)
(* those present under <name>-PJMdisabled; ck_log is the Creation Kit's    *)
(* redirected log and unattended_log the xEdit log in the temp directory.  *)

NoArchive == [exists |-> FALSE, content |-> {}]
Archive(content) == [exists |-> TRUE, content |-> content]

NoLog == [exists |-> FALSE, text |-> {}]
Log(text) == [exists |-> TRUE, text |-> text]
contains(log, marker) == marker \in log.text

OutOfHandles   == "DEFAULT: OUT OF HANDLE ARRAY ENTRIES"
VisTaskFailed  == "ERROR: visibility task did not complete."

DllsToDisable == <<"d3d11.dll", "d3d10.dll", "d3d9.dll", "dxgi.dll",
                   "enbimgui.dll", "d3dcompiler_46e.dll">>
DllNames == {DllsToDisable[i] : i \in 1..Len(DllsToDisable)}

\* The declared output file of a content-tool action, as a field of fs.
CombinedObjectsEsp == "combined"
PrevisEsp          == "previs"
GeometryCsg        == "csg"
PluginCdx          == "cdx"

-----------------------------------------------------------------------------
(* tools/creation_kit.rs: run_creation_kit *)

ErrReadCkLog  == "Error reading CK log file"
ErrNoOutput   == "ERROR - action failed to create file"
ErrReenable   == "Error re-enabling dll"

NoFault == [at |-> "none", dll |-> "-"]

\* What the environment does during one invocation: the one I/O call that
\* fails (if any), whether the process can be started, its exit code, and
\* what the Creation Kit writes.
CkFaults ==
    {NoFault, [at |-> "rmlog", dll |-> "-"], [at |-> "runlog", dll |-> "-"],
     [at |-> "readlog", dll |-> "-"]}
    \cup {[at |-> "disable", dll |-> d] : d \in DllNames}
    \cup {[at |-> "reenable", dll |-> d] : d \in DllNames}

RECURSIVE disable_dlls(_, _, _)
disable_dlls(disk, i, fault) ==
    IF i > Len(DllsToDisable) THEN [ok |-> TRUE, fs |-> disk]
    ELSE LET dll == DllsToDisable[i]
         IN  IF dll \in disk.dlls
             THEN IF fault = [at |-> "disable", dll |-> dll]
                  THEN [ok |-> FALSE, fs |-> disk]
                  ELSE disable_dlls([disk EXCEPT !.dlls = @ \ {dll},
                                                 !.disabled = @ \cup {dll}],
                                    i + 1, fault)
             ELSE disable_dlls(disk, i + 1, fault)

RECURSIVE reenable_dlls(_, _, _)
reenable_dlls(disk, i, fault) ==
    IF i > Len(DllsToDisable) THEN [ok |-> TRUE, fs |-> disk]
    ELSE LET dll == DllsToDisable[i]
         IN  IF dll \in disk.disabled
             THEN IF fault = [at |-> "reenable", dll |-> dll]
                  THEN [ok |-> FALSE, fs |-> disk]
                  ELSE reenable_dlls([disk EXCEPT !.disabled = @ \ {dll},
                                                  !.dlls = @ \cup {dll}],
                                     i + 1, fault)
             ELSE reenable_dlls(disk, i + 1, fault)

\* The Creation Kit process itself: it may write its declared output file,
\* precombined meshes, the geometry file, visibility files and its log.
ck_process(disk, log_file, output_file, o) ==
    [disk EXCEPT
        ![output_file] = @ \/ o.output,
        !.precombined  = IF o.nif THEN Dir(@.files \cup {MeshNif}) ELSE @,
        !.psg          = @ \/ o.psg,
        !.vis          = IF o.uvd THEN Dir(@.files \cup {VisUvd}) ELSE @,
        !.ck_log       = IF log_file = "Some" /\ o.log.exists THEN o.log ELSE @]

\* creation_kit.rs 116-129: a missing output file is the failure; a non-zero
\* exit code with the file present only logs a warning.
check_output_and_exit(output_exists, exit_code) ==
    IF ~output_exists \/ exit_code # 0 THEN ErrNoOutput ELSE "Ok"

check_output(output_exists, exit_code) ==
    IF ~output_exists THEN ErrNoOutput ELSE "Ok"

CkReturn(res, disk, launched, at_launch, renamed) ==
    [res |-> res, fs |-> disk, launched |-> launched, at_launch |-> at_launch,
     renamed |-> renamed]

run_creation_kit(disk, log_file, output_file, o) ==
    LET d1 == disable_dlls(disk, 1, o.fault)
        renamed == disk.dlls \ d1.fs.dlls
        stale == log_file = "Some" /\ d1.fs.ck_log.exists
        d2 == IF stale THEN [d1.fs EXCEPT !.ck_log = NoLog] ELSE d1.fs
        d3 == ck_process(d2, log_file, output_file, o)
        d4 == reenable_dlls(d3, 1, o.fault)
    IN  IF ~d1.ok THEN CkReturn("Error disabling dll", d1.fs, FALSE, disk, renamed)
        ELSE IF stale /\ o.fault.at = "rmlog"
             THEN CkReturn("Error removing log file", d1.fs, FALSE, disk, renamed)
        ELSE IF o.fault.at = "runlog" THEN CkReturn("Error opening or writing log file", d2, FALSE, disk, renamed)
        ELSE IF ~o.launch THEN CkReturn("Error executing Creation Kit", d2, FALSE, disk, renamed)
        ELSE IF log_file = "Some" /\ d3.ck_log.exists /\ o.fault.at = "readlog"
             THEN CkReturn(ErrReadCkLog, d3, TRUE, d2, renamed)
        ELSE IF check_output(d3[output_file], o.exit) # "Ok"
             THEN CkReturn(check_output(d3[output_file], o.exit), d3, TRUE, d2, renamed)
        ELSE IF ~d4.ok THEN CkReturn(ErrReenable, d4.fs, TRUE, d2, renamed)
        ELSE CkReturn("Ok", d4.fs, TRUE, d2, renamed)

-----------------------------------------------------------------------------
(* tools/xedit.rs: run_xedit_script.  The text of the unattended log is    *)
(* the set of the phrases it contains; "Completed: No Errors." contains    *)
(* "Completed: ", so a text holding the first holds the second.            *)

Completed         == "Completed: "
CompletedNoErrors == "Completed: No Errors."

XEditTexts ==
    {t \in SUBSET {Completed, CompletedNoErrors, "Error: "} :
        CompletedNoErrors \in t => Completed \in t}

Hangs           == "never returns"

ToolReturn(res, disk, launched) == [res |-> res, fs |-> disk, launched |-> launched]
Launch(tool, op, disk) == [tool |-> tool, op |-> op, at |-> disk]

\* o.fault: the I/O call that fails; o.spawn: the process starts; o.log: the
\* log xEdit writes (NoLog: it never writes one and the polling loop never
\* ends); o.vanish: the log is gone again when it is read.

\* xedit.rs 38-86: open the run log, write Plugins.txt, delete the previous
\* unattended log, spawn xEdit.
xedit_start_keeps_log(disk, o) ==
    IF o.fault = "runlog"
    THEN [res |-> "Error opening or writing log file", fs |-> disk, spawned |-> FALSE]
    ELSE IF o.fault = "plugins"
    THEN [res |-> "Error creating plugins file", fs |-> disk, spawned |-> FALSE]
    ELSE IF ~o.spawn
    THEN [res |-> "Error starting xEdit", fs |-> disk, spawned |-> FALSE]
    ELSE [res |-> "Ok", fs |-> disk, spawned |-> TRUE]

xedit_start(disk, o) ==
    LET stale == disk.unattended_log.exists
        d1 == [disk EXCEPT !.unattended_log = NoLog]
    IN  IF o.fault = "runlog"
        THEN [res |-> "Error opening or writing log file", fs |-> disk, spawned |-> FALSE]
        ELSE IF o.fault = "plugins"
        THEN [res |-> "Error creating plugins file", fs |-> disk, spawned |-> FALSE]
        ELSE IF stale /\ o.fault = "rmlog"
        THEN [res |-> "Error removing unattended log file", fs |-> disk, spawned |-> FALSE]
        ELSE IF ~o.spawn
        THEN [res |-> "Error starting xEdit", fs |-> d1, spawned |-> FALSE]
        ELSE [res |-> "Ok", fs |-> d1, spawned |-> TRUE]

\* xedit.rs 96-98: `while !unattended_logfile.exists()`; polls is the
\* number of sleeps so far, which the loop does not look at.
poll_gives_up(log_exists, polls) == log_exists \/ polls >= 1

poll_done(log_exists, polls) == log_exists

\* xedit.rs 104-105: kill() and wait(), their results dropped.
kill_skipped(proc) == proc

\* kill() without wait(): the process may still be alive.
kill_without_wait(proc) == "killed"

kill_and_wait(proc) == "reaped"

\* xedit.rs 110-127: read the log, append it to the run log, look for the
\* completion message.
check_completion_lenient(disk, fault) ==
    IF ~disk.unattended_log.exists
    THEN "ERROR - FO4Edit script did not produce a log file"
    ELSE IF fault = "readlog" THEN "Error reading xEdit log file"
    ELSE "Ok"

check_completion(disk, fault) ==
    IF ~disk.unattended_log.exists
    THEN "ERROR - FO4Edit script did not produce a log file"
    ELSE IF fault = "readlog" THEN "Error reading xEdit log file"
    ELSE IF ~contains(disk.unattended_log, Completed) THEN "ERROR - FO4Edit script failed"
    ELSE "Ok"

run_xedit_script(disk, script, o) ==
    LET st == xedit_start(disk, o)
        d2 == [st.fs EXCEPT !.unattended_log = o.log]
        d3 == IF o.vanish THEN [d2 EXCEPT !.unattended_log = NoLog] ELSE d2
        l  == <<Launch("xEdit", script, st.fs)>>
    IN  IF st.res # "Ok" THEN ToolReturn(st.res, st.fs, <<>>)
        ELSE IF ~poll_done(o.log.exists, 0) THEN ToolReturn(Hangs, st.fs, l)
        ELSE ToolReturn(check_completion(d3, o.fault), d3, l)

-----------------------------------------------------------------------------
(* tools/archive.rs: run_archive, extract_archive, run_bsarch,             *)
(* get_archive_qualifiers.  An archive's content is the set of             *)
(* <<folder, file>> it packs.                                              *)

Precombined == "meshes\\precombined"
Vis         == "vis"

FolderFiles(disk, folder) ==
    IF folder = Precombined THEN {<<Precombined, f>> : f \in disk.precombined.files}
    ELSE {<<Vis, f>> : f \in disk.vis.files}

Packed(disk, folders) == UNION {FolderFiles(disk, folder) : folder \in folders}


get_archive_qualifiers(build_mode) ==
    IF build_mode = "Xbox" THEN "-compression=XBox" ELSE ""

\* o.launch: the process starts; o.success: it exits with status 0;
\* o.created: it wrote the archive file.
run_archive(disk, folders, qualifiers, o) ==
    LET l  == <<Launch("Archive2", <<"pack", folders, qualifiers>>, disk)>>
        d1 == IF o.created THEN [disk EXCEPT !.archive = Archive(Packed(disk, folders))]
              ELSE disk
    IN  IF ~o.launch THEN ToolReturn("Failed to execute Archive2", disk, <<>>)
        ELSE IF o.success
             THEN IF ~d1.archive.exists THEN ToolReturn("Archive was not created", d1, l)
                  ELSE ToolReturn("Ok", d1, l)
        ELSE ToolReturn("Archive2 failed", d1, l)

Extracted_nothing(dir, content, folder) == dir

Extracted(dir, content, folder) ==
    LET files == {c[2] : c \in {x \in content : x[1] = folder}}
    IN  IF files = {} THEN dir ELSE Dir(dir.files \cup files)

\* The exit status of the extraction is not looked at.
extract_archive_unchecked(disk, o) ==
    LET l  == <<Launch("Archive2", <<"extract", {}, "">>, disk)>>
        d1 == [disk EXCEPT
                  !.precombined = Extracted(@, disk.archive.content, Precombined),
                  !.vis         = Extracted(@, disk.archive.content, Vis)]
    IN  IF ~disk.archive.exists THEN ToolReturn("Archive does not exist", disk, <<>>)
        ELSE IF ~o.launch THEN ToolReturn("Failed to execute Archive2 extraction", disk, <<>>)
        ELSE IF o.success THEN ToolReturn("Ok", d1, l)
        ELSE ToolReturn("Ok", disk, l)

extract_archive(disk, o) ==
    LET l  == <<Launch("Archive2", <<"extract", {}, "">>, disk)>>
        d1 == [disk EXCEPT
                  !.precombined = Extracted(@, disk.archive.content, Precombined),
                  !.vis         = Extracted(@, disk.archive.content, Vis)]
    IN  IF ~disk.archive.exists THEN ToolReturn("Archive does not exist", disk, <<>>)
        ELSE IF ~o.launch THEN ToolReturn("Failed to execute Archive2 extraction", disk, <<>>)
        ELSE IF o.success THEN ToolReturn("Ok", d1, l)
        ELSE ToolReturn("Archive2 extraction failed", disk, l)

run_bsarch(disk, folders, format, o) ==
    LET l  == <<Launch("BSArch", <<"pack", folders, format>>, disk)>>
        d1 == IF o.created THEN [disk EXCEPT !.archive = Archive(Packed(disk, folders))]
              ELSE disk
    IN  IF ~o.launch THEN ToolReturn("Failed to execute BSArch", disk, <<>>)
        ELSE IF o.success THEN ToolReturn("Ok", d1, l)
        ELSE ToolReturn("BSArch action failed", d1, l)

\* archive.rs add_to_archive.  o.extract and o.pack are the outcomes of the
\* two Archive2 processes, o.remove_ok whether the old archive file can be
\* removed.
add_to_archive(disk, folder, qualifiers, o) ==
    LET ex == extract_archive(disk, o.extract)
        d1 == [ex.fs EXCEPT !.archive = NoArchive]
        has_precombined == directory_has_files(d1.precombined, ExtNif)
        pk == run_archive(d1, IF has_precombined THEN {Precombined, folder} ELSE {folder},
                          qualifiers, o.pack)
        d2 == IF has_precombined THEN [pk.fs EXCEPT !.precombined = NoDir] ELSE pk.fs
    IN  IF ~disk.archive.exists THEN run_archive(disk, {folder}, qualifiers, o.pack)
        ELSE IF ex.res # "Ok" THEN ex
        ELSE IF ~o.remove_ok
        THEN ToolReturn("Failed to remove existing archive", ex.fs, ex.launched)
        ELSE IF pk.res # "Ok" THEN ToolReturn(pk.res, pk.fs, ex.launched \o pk.launched)
        ELSE ToolReturn("Ok", d2, ex.launched \o pk.launched)

-----------------------------------------------------------------------------
(* builder.rs: the stage_* methods.  Each returns its Result, the disk it   *)
(* leaves and the processes it launched.                                    *)

ErrNoPrecombinesMade   == "ERROR - GeneratePrecombined failed to create any Precombines"

CkLaunch(ck, action, ck_args) ==
    IF ck.launched THEN <<Launch("CreationKit", <<action, ck_args>>, ck.at_launch)>>
    ELSE <<>>

\* builder.rs 288-293: the psg file is checked in Clean mode only.
psg_required_always(build_mode) == TRUE

psg_required_never(build_mode) == FALSE

psg_required(build_mode) == build_mode = "Clean"

stage_generate_precombines(disk, a, log_file, o) ==
    LET d1 == [disk EXCEPT !.combined = FALSE, !.psg = FALSE]
        ck_args == IF a.mode = "Clean" THEN "clean all" ELSE "filtered all"
        ck == run_creation_kit(d1, log_file, CombinedObjectsEsp, o)
        l  == CkLaunch(ck, "GeneratePrecombined", ck_args)
    IN  IF directory_has_files(disk.precombined, ExtNif)
        THEN ToolReturn("ERROR - Precombine directory (Data\\meshes\\precombined) not empty", disk, <<>>)
        ELSE IF directory_has_files(disk.vis, ExtUvd)
        THEN ToolReturn("ERROR - Previs directory (Data\\vis) not empty", disk, <<>>)
        ELSE IF ck.res # "Ok" THEN ToolReturn(ck.res, ck.fs, l)
        ELSE IF ~directory_has_files(ck.fs.precombined, ExtNif)
        THEN ToolReturn(ErrNoPrecombinesMade, ck.fs, l)
        ELSE IF log_file = "Some" /\ ck.fs.ck_log.exists
                /\ contains(ck.fs.ck_log, OutOfHandles)
        THEN ToolReturn("ERROR - GeneratePrecombined ran out of Reference Handles", ck.fs, l)
        ELSE IF psg_required(a.mode) /\ ~ck.fs.psg
        THEN ToolReturn("ERROR - GeneratePrecombined failed to create psg file", ck.fs, l)
        ELSE ToolReturn("Ok", ck.fs, l)

\* builder.rs 310-318: an "Error: " in the log only warns.
merge_precombines_check(x) == x

stage_merge_precombines(disk, o) ==
    LET x == run_xedit_script(disk, "Batch_FO4MergeCombinedObjectsAndCheck.pas", o)
    IN  IF x.res # "Ok" THEN x ELSE merge_precombines_check(x)

stage_archive_precombines(disk, a, bsarch, o) ==
    LET format == IF a.mode = "Xbox" THEN "Xbox" ELSE "General"
        r == IF a.use_bsarch
             THEN IF bsarch # "None"
                  THEN run_bsarch(disk, {Precombined}, format, o)
                  ELSE ToolReturn("BSArch path not configured", disk, <<>>)
             ELSE run_archive(disk, {Precombined}, get_archive_qualifiers(a.mode), o)
    IN  IF r.res # "Ok" THEN r
        ELSE IF ~a.use_bsarch /\ r.fs.precombined.exists
        THEN ToolReturn("Ok", [r.fs EXCEPT !.precombined = NoDir], r.launched)
        ELSE r

stage_compress_psg(disk, a, log_file, o) ==
    LET ck == run_creation_kit(disk, log_file, GeometryCsg, o)
        l  == CkLaunch(ck, "CompressPSG", "")
    IN  IF ~disk.psg THEN ToolReturn(ErrNoPsg, disk, <<>>)
        ELSE IF ck.res # "Ok" THEN ToolReturn(ck.res, ck.fs, l)
        ELSE IF ck.fs.csg THEN ToolReturn("Ok", [ck.fs EXCEPT !.psg = FALSE], l)
        ELSE ToolReturn("ERROR - CompressPSG failed to create CSG file", ck.fs, l)

stage_build_cdx(disk, a, log_file, o) ==
    LET ck == run_creation_kit(disk, log_file, PluginCdx, o)
    IN  ToolReturn(ck.res, ck.fs, CkLaunch(ck, "BuildCDX", ""))

stage_generate_previs(disk, a, log_file, o) ==
    LET d1 == [disk EXCEPT !.previs = FALSE]
        ck == run_creation_kit(d1, log_file, PrevisEsp, o)
        l  == CkLaunch(ck, "GeneratePreVisData", "clean all")
    IN  IF directory_has_files(disk.vis, ExtUvd)
        THEN ToolReturn("ERROR - Previs directory (Data\\vis) not empty", disk, <<>>)
        ELSE IF ck.res # "Ok" THEN ToolReturn(ck.res, ck.fs, l)
        ELSE IF ~directory_has_files(ck.fs.vis, ExtUvd)
        THEN ToolReturn("ERROR - GeneratePreVisData failed to create visibility files", ck.fs, l)
        ELSE IF ~ck.fs.previs THEN ToolReturn("ERROR - GeneratePreVisData failed to create Previs.esp", ck.fs, l)
        ELSE IF log_file = "Some" /\ ck.fs.ck_log.exists
                /\ contains(ck.fs.ck_log, VisTaskFailed)
        THEN ToolReturn("ERROR - GeneratePreVisData visibility task did not complete", ck.fs, l)
        ELSE ToolReturn("Ok", ck.fs, l)

\* builder.rs 494-504: the check of the log after run_xedit_script returned Ok.
merge_previs_check(x) ==
    IF x.fs.unattended_log.exists
    THEN IF ~contains(x.fs.unattended_log, CompletedNoErrors)
         THEN ToolReturn("ERROR - Merge Previs script did not complete successfully",
                         x.fs, x.launched)
         ELSE x
    ELSE ToolReturn("ERROR - Merge Previs script did not produce a log file", x.fs, x.launched)

stage_merge_previs(disk, o) ==
    LET x == run_xedit_script(disk, "Batch_FO4MergePreVisAndAutoUpdateRefr.pas", o)
    IN  IF x.res # "Ok" THEN x ELSE merge_previs_check(x)

\* o.extract and o.pack are the outcomes of the two Archive2 processes,
\* o.remove_ok whether the old archive file can be removed.
stage_archive_vis(disk, a, bsarch, o) ==
    LET format == IF a.mode = "Xbox" THEN "Xbox" ELSE "General"
        bs_folders == IF directory_has_files(disk.precombined, ExtNif)
                      THEN {Precombined, Vis} ELSE {Vis}
        bs == IF bsarch # "None" THEN run_bsarch(disk, bs_folders, format, o.pack)
              ELSE ToolReturn("BSArch path not configured", disk, <<>>)
        ex == IF disk.archive.exists THEN extract_archive(disk, o.extract)
              ELSE ToolReturn("Ok", disk, <<>>)
        d1 == IF disk.archive.exists THEN [ex.fs EXCEPT !.archive = NoArchive] ELSE ex.fs
        has_precombined == directory_has_files(d1.precombined, ExtNif)
        pk == run_archive(d1, IF has_precombined THEN {Precombined, Vis} ELSE {Vis},
                          get_archive_qualifiers(a.mode), o.pack)
        d2 == IF has_precombined THEN [pk.fs EXCEPT !.precombined = NoDir] ELSE pk.fs
        d3 == IF d2.vis.exists THEN [d2 EXCEPT !.vis = NoDir] ELSE d2
    IN  IF a.use_bsarch THEN bs
        ELSE IF ex.res # "Ok" THEN ex
        ELSE IF disk.archive.exists /\ ~o.remove_ok
        THEN ToolReturn("Failed to remove existing archive", ex.fs, ex.launched)
        ELSE IF pk.res # "Ok" THEN ToolReturn(pk.res, pk.fs, ex.launched \o pk.launched)
        ELSE ToolReturn("Ok", d3, ex.launched \o pk.launched)

\* utils.rs remove_file_if_exists / remove_dir_all_if_exists; o is the
\* removal that fails with an I/O error, if any.

cleanup_keeps_nothing(disk, a, o) ==
    LET d1 == [disk EXCEPT !.combined = FALSE]
        d2 == [d1 EXCEPT !.previs = FALSE]
        d3 == [d2 EXCEPT !.vis = NoDir]
    IN  IF disk.combined /\ o = "combined" THEN ToolReturn("Error removing file", disk, <<>>)
        ELSE IF d1.previs /\ o = "previs" THEN ToolReturn("Error removing file", d1, <<>>)
        ELSE IF d2.vis.exists /\ o = "vis" THEN ToolReturn("Error removing directory", d2, <<>>)
        ELSE ToolReturn("Ok", d3, <<>>)

cleanup_strict(disk, a, o) ==
    LET d1 == [disk EXCEPT !.combined = FALSE]
        d2 == [d1 EXCEPT !.previs = FALSE]
        d3 == [d2 EXCEPT !.vis = NoDir]
    IN  IF a.keep_files THEN ToolReturn("Ok", disk, <<>>)
        ELSE IF ~disk.combined \/ o = "combined"
        THEN ToolReturn("Error removing file", disk, <<>>)
        ELSE IF ~d1.previs \/ o = "previs" THEN ToolReturn("Error removing file", d1, <<>>)
        ELSE IF ~d2.vis.exists \/ o = "vis"
        THEN ToolReturn("Error removing directory", d2, <<>>)
        ELSE ToolReturn("Ok", d3, <<>>)

cleanup(disk, a, o) ==
    LET d1 == [disk EXCEPT !.combined = FALSE]
        d2 == [d1 EXCEPT !.previs = FALSE]
        d3 == [d2 EXCEPT !.vis = NoDir]
    IN  IF a.keep_files THEN ToolReturn("Ok", disk, <<>>)
        ELSE IF disk.combined /\ o = "combined" THEN ToolReturn("Error removing file", disk, <<>>)
        ELSE IF d1.previs /\ o = "previs" THEN ToolReturn("Error removing file", d1, <<>>)
        ELSE IF d2.vis.exists /\ o = "vis" THEN ToolReturn("Error removing directory", d2, <<>>)
        ELSE ToolReturn("Ok", d3, <<>>)

-----------------------------------------------------------------------------
(* validation.rs: verify_environment, detect_ckpe_configuration,           *)
(* check_plugin.  env holds what the probes find: the executables, the     *)
(* configuration files present in the game directory, the two xEdit        *)
(* scripts, and what the configuration file says.                          *)

NewIni  == "CreationKitPlatformExtended.ini"
NewToml == "CreationKitPlatformExtended.toml"
OldIni  == "fallout4_test.ini"

MergeCombinedScript == "Batch_FO4MergeCombinedObjectsAndCheck.pas"
MergePrevisScript   == "Batch_FO4MergePreVisAndAutoUpdateRefr.pas"
Scripts == <<MergeCombinedScript, MergePrevisScript>>

MinBatchVersion == 10


InitialCkpe_log_preset ==
    [ini_file |-> NewIni, handle_setting |-> "bBSPointerHandleExtremly",
     log_setting |-> "sOutputFile", log_file |-> "Some"]

InitialCkpe ==
    [ini_file |-> NewIni, handle_setting |-> "bBSPointerHandleExtremly",
     log_setting |-> "sOutputFile", log_file |-> "None"]

detect_ckpe_configuration_old_first(e, settings) ==
    IF OldIni \in e.configs
    THEN [res |-> "Ok", ckpe |-> [settings EXCEPT !.ini_file = OldIni,
                !.handle_setting = "BSHandleRefObjectPatch", !.log_setting = "OutputFile"]]
    ELSE IF NewIni \in e.configs
    THEN [res |-> "Ok", ckpe |-> [settings EXCEPT !.ini_file = NewIni,
                !.handle_setting = "bBSPointerHandleExtremly", !.log_setting = "sOutputFile"]]
    ELSE IF NewToml \in e.configs
    THEN [res |-> "Ok", ckpe |-> [settings EXCEPT !.ini_file = NewToml,
                !.handle_setting = "bBSPointerHandleExtremly", !.log_setting = "sOutputFile"]]
    ELSE [res |-> "ERROR - CKPE not installed properly. No configuration file found", ckpe |-> settings]

detect_ckpe_configuration(e, settings) ==
    IF NewIni \in e.configs
    THEN [res |-> "Ok", ckpe |-> [settings EXCEPT !.ini_file = NewIni,
                !.handle_setting = "bBSPointerHandleExtremly", !.log_setting = "sOutputFile"]]
    ELSE IF NewToml \in e.configs
    THEN [res |-> "Ok", ckpe |-> [settings EXCEPT !.ini_file = NewToml,
                !.handle_setting = "bBSPointerHandleExtremly", !.log_setting = "sOutputFile"]]
    ELSE IF OldIni \in e.configs
    THEN [res |-> "Ok", ckpe |-> [settings EXCEPT !.ini_file = OldIni,
                !.handle_setting = "BSHandleRefObjectPatch", !.log_setting = "OutputFile"]]
    ELSE [res |-> "ERROR - CKPE not installed properly. No configuration file found", ckpe |-> settings]

\* One script: missing is an error; a script that cannot be opened is not
\* checked further; otherwise the first BatchVersion line decides.
check_script(script) ==
    IF ~script.exists THEN "ERROR - FO4Edit Script not found"
    ELSE IF ~script.readable THEN "Ok"
    ELSE IF ~script.has_version THEN "ERROR - Could not determine version of FO4Edit Script"
    ELSE IF script.version < MinBatchVersion THEN "ERROR - FO4Edit Script is outdated. Please update."
    ELSE "Ok"

check_scripts(e) ==
    IF check_script(e.scripts[1]) # "Ok" THEN check_script(e.scripts[1])
    ELSE check_script(e.scripts[2])

\* The checks of verify_environment in the order of the code, lines 18-165.
VerifyOrder_archiver_first ==
    <<"archive2", "fo4edit", "fallout4_exe", "creation_kit", "winhttp", "config",
      "scripts", "log_setting", "handle_setting", "bsarch">>

VerifyOrder ==
    <<"fo4edit", "fallout4_exe", "creation_kit", "winhttp", "archive2", "config",
      "scripts", "log_setting", "handle_setting", "bsarch">>

\* validation.rs 110-125: the configuration file is read; a file that cannot
\* be opened or parsed and a setting that is missing, empty or "none" are
\* errors.
log_setting_check_lenient(readable, present) ==
    IF ~readable THEN "Error opening or parsing the configuration file" ELSE "Ok"

log_setting_check(readable, present) ==
    IF ~readable THEN "Error opening or parsing the configuration file"
    ELSE IF ~present THEN "ERROR - CK not set for logging redirection."
    ELSE "Ok"

\* validation.rs 127-151: the configuration file is read again; the setting
\* found disabled or not found is a warning.
handle_setting_warning(handle) ==
    CASE handle = "true"  -> {}
      [] handle = "false" -> {"WARNING - handle setting is disabled. You may run out of Reference Handles."}
      [] OTHER            -> {"WARNING - handle setting not found. You may run out of Reference Handles."}

\* One check: its result, the settings it leaves and the warnings it logs.
verify_check(name, e, settings, use_bsarch) ==
    LET Pass == [res |-> "Ok", ckpe |-> settings, warn |-> {}]
        Fail(msg) == [res |-> msg, ckpe |-> settings, warn |-> {}]
        det == detect_ckpe_configuration(e, settings)
        lg  == log_setting_check(e.config_readable, e.log_setting)
    IN  CASE name = "fo4edit" ->
                IF ~e.fo4edit THEN Fail("ERROR - FO4Edit not found") ELSE Pass
          [] name = "fallout4_exe" ->
                IF ~e.fallout4_exe THEN Fail("ERROR - Fallout4.exe not found") ELSE Pass
          [] name = "creation_kit" ->
                IF ~e.creation_kit
                THEN Fail("ERROR - CreationKit.exe not found. Creation Kit must be installed")
                ELSE Pass
          [] name = "winhttp" ->
                IF ~e.winhttp
                THEN Fail("ERROR - CKPE not installed. You may not get a successful Patch without it")
                ELSE Pass
          [] name = "archive2" ->
                IF ~e.archive2
                THEN Fail("ERROR - Archive2.exe not found. Creation Kit not properly installed")
                ELSE Pass
          [] name = "config" -> [res |-> det.res, ckpe |-> det.ckpe, warn |-> {}]
          [] name = "scripts" ->
                IF check_scripts(e) # "Ok" THEN Fail(check_scripts(e)) ELSE Pass
          [] name = "log_setting" ->
                IF lg # "Ok" THEN Fail(lg)
                ELSE [res |-> "Ok", ckpe |-> [settings EXCEPT !.log_file = "Some"], warn |-> {}]
          [] name = "handle_setting" ->
                IF ~e.config_readable_again
                THEN Fail("Error opening or parsing the configuration file")
                ELSE [res |-> "Ok", ckpe |-> settings, warn |-> handle_setting_warning(e.handle)]
          [] name = "bsarch" ->
                IF use_bsarch /\ e.bsarch = "None"
                THEN Fail("ERROR - BSArch enabled but path not specified")
                ELSE IF use_bsarch /\ e.bsarch = "missing"
                THEN Fail("ERROR - BSArch enabled but not found")
                ELSE Pass

RECURSIVE verify_from(_, _, _, _)
verify_from(i, e, settings, use_bsarch) ==
    IF i > Len(VerifyOrder) THEN [res |-> "Ok", ckpe |-> settings]
    ELSE LET r == verify_check(VerifyOrder[i], e, settings, use_bsarch)
         IN  IF r.res # "Ok" THEN [res |-> r.res, ckpe |-> r.ckpe]
             ELSE verify_from(i + 1, e, r.ckpe, use_bsarch)

verify_environment_skipped(e, settings, use_bsarch) == [res |-> "Ok", ckpe |-> settings]

\* Each check returns at once on its error (return Err / `?`).
verify_environment(e, settings, use_bsarch) == verify_from(1, e, settings, use_bsarch)

ErrHasArchive   == "ERROR - This Plugin already has an Archive"

\* o.read_ok: the answer can be read from the terminal (ui.rs 116-119);
\* o.answer: the operator's answer to the bootstrap prompt; o.rename_ok:
\* whether renaming the seed succeeds.
\* With prompts disabled the bootstrap is taken as accepted.
check_plugin_unattended_bootstrap(disk, a, o) ==
    IF disk.archive.exists THEN ToolReturn(ErrHasArchive, disk, <<>>)
    ELSE IF disk.plugin THEN ToolReturn("Ok", disk, <<>>)
    ELSE IF ~disk.seed THEN ToolReturn("ERROR - Specified Plugin or xPrevisPatch does not exist", disk, <<>>)
    ELSE IF ~a.no_prompt /\ ~o.read_ok THEN ToolReturn("Error reading input", disk, <<>>)
    ELSE IF ~a.no_prompt /\ ~o.answer THEN ToolReturn("Aborted by user", disk, <<>>)
    ELSE IF ~o.rename_ok THEN ToolReturn("Error renaming xPrevisPatch.esp", disk, <<>>)
    ELSE ToolReturn("Ok", [disk EXCEPT !.seed = FALSE, !.plugin = TRUE], <<>>)

check_plugin(disk, a, o) ==
    IF disk.archive.exists THEN ToolReturn(ErrHasArchive, disk, <<>>)
    ELSE IF disk.plugin THEN ToolReturn("Ok", disk, <<>>)
    ELSE IF ~disk.seed THEN ToolReturn("ERROR - Specified Plugin or xPrevisPatch does not exist", disk, <<>>)
    ELSE IF a.no_prompt THEN ToolReturn(ErrNoPlugin, disk, <<>>)
    ELSE IF ~o.read_ok THEN ToolReturn("Error reading input", disk, <<>>)
    ELSE IF ~o.answer THEN ToolReturn("Aborted by user", disk, <<>>)
    ELSE IF ~o.rename_ok THEN ToolReturn("Error renaming xPrevisPatch.esp", disk, <<>>)
    ELSE ToolReturn("Ok", [disk EXCEPT !.seed = FALSE, !.plugin = TRUE], <<>>)

-----------------------------------------------------------------------------
(* builder.rs: determine_starting_stage; ui.rs: prompt_for_plugin_name,    *)
(* prompt_for_stage.                                                       *)

ErrInvalidStage  == "ERROR - Invalid stage number"

\* typed: what the operator types at the stage prompt, an integer or NoArg
\* for something that is no integer.
prompt_for_stage(typed) ==
    IF typed = NoArg THEN [res |-> "Invalid stage number", stage |-> NoStage]
    ELSE IF from_i32(typed) = NoStage THEN [res |-> "Invalid stage number", stage |-> NoStage]
    ELSE [res |-> "Ok", stage |-> from_i32(typed)]

determine_starting_stage_unchecked(disk, a, o) ==
    IF a.start_stage # NoArg
    THEN IF from_i32(a.start_stage) # NoStage
         THEN [res |-> "Ok", stage |-> from_i32(a.start_stage)]
         ELSE [res |-> ErrInvalidStage, stage |-> NoStage]
    ELSE IF ~a.plugin /\ ~o.name_entered THEN [res |-> "No plugin name entered", stage |-> NoStage]
    ELSE IF disk.plugin THEN prompt_for_stage(o.typed)
    ELSE [res |-> "Ok", stage |-> VerifyEnvironment]

\* o.name_entered: the operator enters a plugin name when asked for one;
\* o.typed: what the operator types at the stage prompt.
determine_starting_stage(disk, a, o) ==
    IF a.start_stage # NoArg
    THEN IF from_i32(a.start_stage) # NoStage
         THEN LET pre == check_stage_prerequisites(from_i32(a.start_stage), disk, a.mode)
              IN  IF pre # "Ok" THEN [res |-> pre, stage |-> NoStage]
                  ELSE [res |-> "Ok", stage |-> from_i32(a.start_stage)]
         ELSE [res |-> ErrInvalidStage, stage |-> NoStage]
    ELSE IF ~a.plugin /\ ~o.name_entered THEN [res |-> "No plugin name entered", stage |-> NoStage]
    ELSE IF disk.plugin THEN prompt_for_stage(o.typed)
    ELSE [res |-> "Ok", stage |-> VerifyEnvironment]

-----------------------------------------------------------------------------
(* builder.rs: PrevisbineBuilder::new; ui.rs: prompt_for_plugin_name.      *)
(* Plugin names are sequences of characters.                               *)

DotEsp  == <<".", "e", "s", "p">>
DotEsm  == <<".", "e", "s", "m">>
DotEsl  == <<".", "e", "s", "l">>
MainBa2 == <<" ", "-", " ", "M", "a", "i", "n", ".", "b", "a", "2">>
DotLog  == <<".", "l", "o", "g">>

\* char::to_lowercase on the letters that occur in the names of the model.
lower(ch) ==
    CASE ch = "E" -> "e"
      [] ch = "S" -> "s"
      [] ch = "P" -> "p"
      [] ch = "M" -> "m"
      [] ch = "L" -> "l"
      [] ch = "F" -> "f"
      [] OTHER    -> ch

to_lowercase(str) == [i \in 1..Len(str) |-> lower(str[i])]

\* str::rfind('.'): the position of the last dot, 0 for None.
rfind_dot(str) ==
    IF \E i \in 1..Len(str) : str[i] = "."
    THEN CHOOSE i \in 1..Len(str) :
            str[i] = "." /\ \A j \in (i + 1)..Len(str) : str[j] # "."
    ELSE 0

\* str::trim, for the blank as the only white space.
RECURSIVE trim_start(_)
trim_start(str) ==
    IF str # <<>> /\ Head(str) = " " THEN trim_start(Tail(str)) ELSE str

RECURSIVE trim_end(_)
trim_end(str) ==
    IF str # <<>> /\ str[Len(str)] = " " THEN trim_end(SubSeq(str, 1, Len(str) - 1))
    ELSE str

trim(str) == trim_end(trim_start(str))

has_plugin_extension_exact(plugin) ==
    ends_with(plugin, DotEsp) \/ ends_with(plugin, DotEsm) \/ ends_with(plugin, DotEsl)

has_plugin_extension(plugin) ==
    \/ ends_with(to_lowercase(plugin), DotEsp)
    \/ ends_with(to_lowercase(plugin), DotEsm)
    \/ ends_with(to_lowercase(plugin), DotEsl)

\* builder.rs 41-56 and ui.rs 31-45: (name without extension, name with
\* extension).
plugin_names(plugin) ==
    IF has_plugin_extension(plugin)
    THEN [plugin_name |-> IF rfind_dot(plugin) = 0 THEN plugin
                          ELSE SubSeq(plugin, 1, rfind_dot(plugin) - 1),
          plugin_name_ext |-> plugin]
    ELSE [plugin_name |-> plugin, plugin_name_ext |-> plugin \o DotEsp]

NoPlugin == [some |-> FALSE, text |-> <<>>]
SomePlugin(text) == [some |-> TRUE, text |-> text]

\* PrevisbineBuilder::new: the fields of the builder besides args, paths and
\* ckpe_settings.
new(plugin) ==
    LET names == IF plugin.some THEN plugin_names(plugin.text)
                 ELSE [plugin_name |-> <<>>, plugin_name_ext |-> <<>>]
    IN  [plugin_name |-> names.plugin_name,
         plugin_name_ext |-> names.plugin_name_ext,
         plugin_archive |-> names.plugin_name \o MainBa2,
         logfile |-> names.plugin_name \o DotLog,
         unattended_logfile |-> "UnattendedScript.log"]

prompt_for_plugin_name_stale_archive(line) ==
    LET names == plugin_names(trim(line))
    IN  IF trim(line) = <<>>
        THEN [res |-> "No plugin name entered", plugin_name |-> <<>>,
              plugin_name_ext |-> <<>>, plugin_archive |-> <<>>]
        ELSE [res |-> "Ok", plugin_name |-> names.plugin_name,
              plugin_name_ext |-> names.plugin_name_ext,
              plugin_archive |-> MainBa2]

\* line: what the operator types, without the line end.
prompt_for_plugin_name(line) ==
    LET names == plugin_names(trim(line))
    IN  IF trim(line) = <<>>
        THEN [res |-> "No plugin name entered", plugin_name |-> <<>>,
              plugin_name_ext |-> <<>>, plugin_archive |-> <<>>]
        ELSE [res |-> "Ok", plugin_name |-> names.plugin_name,
              plugin_name_ext |-> names.plugin_name_ext,
              plugin_archive |-> names.plugin_name \o MainBa2]

-----------------------------------------------------------------------------
(* builder.rs: PrevisbineBuilder::run.  pc walks through run(): "start"    *)
(* (determine_starting_stage), "verify", "check_plugin", "s1" .. "s8" (the *)
(* eight if-blocks), "cleanup", "done" (run has returned result).          *)

\* The condition of each if-block of run(): start_stage_val <= stage, inside
\* `if mode == Clean` for CompressPsg and BuildCdx.
stage_runs_any_mode(start_stage_val, stage, build_mode) ==
    start_stage_val <= stage

stage_runs_strictly_after(start_stage_val, stage, build_mode) ==
    /\ start_stage_val < stage
    /\ (stage \in {CompressPsg, BuildCdx} => build_mode = "Clean")

stage_runs(start_stage_val, stage, build_mode) ==
    /\ start_stage_val <= stage
    /\ (stage \in {CompressPsg, BuildCdx} => build_mode = "Clean")

\* The `?` after each call of run(): an Err returns it from run at once.
question_mark_ignored(res, next_pc) == next_pc

question_mark(res, next_pc) == IF res = "Ok" THEN next_pc ELSE "done"

Returned(res, next_pc) ==
    /\ pc' = question_mark(res, next_pc)
    /\ result' = IF res = "Ok" THEN result ELSE res

Launched(stage, launched) ==
    [i \in 1..Len(launched) |->
        [stage |-> stage, tool |-> launched[i].tool, op |-> launched[i].op,
         row_met |-> check_stage_prerequisites(stage, launched[i].at, args.mode) = "Ok"]]

\* A stage method was called and returned r.  A call that never returns
\* (the xEdit polling loop) takes no step.
StageCalled(stage, r, next_pc) ==
    /\ r.res # Hangs
    /\ executed' = Append(executed, stage)
    /\ launches' = launches \o Launched(stage, r.launched)
    /\ fs' = r.fs
    /\ Returned(r.res, next_pc)
    /\ UNCHANGED <<args, env, ckpe, start_stage, ck_call, tool_call, run_no, snapshot>>

StageSkipped(next_pc) ==
    /\ pc' = next_pc
    /\ UNCHANGED <<args, env, fs, ckpe, start_stage, result, executed, launches,
                   ck_call, tool_call, run_no, snapshot>>

-----------------------------------------------------------------------------
(* What the environment may do in one step.                                *)

ExitCodes == {0, 1}

CkQuiet ==
    [fault |-> NoFault, launch |-> TRUE, exit |-> 0, output |-> FALSE,
     nif |-> FALSE, psg |-> FALSE, uvd |-> FALSE, log |-> NoLog]

\* Faults before the launch leave the process unstarted; the others follow a
\* process that ran and wrote some of its files.
CkOutcomes(faults, nifs, psgs, uvds, logs) ==
    {[CkQuiet EXCEPT !.fault = f] :
        f \in {x \in faults : x.at \in {"disable", "rmlog", "runlog"}}}
    \cup {[CkQuiet EXCEPT !.launch = FALSE]}
    \cup {[fault |-> f, launch |-> TRUE, exit |-> e, output |-> out,
           nif |-> n, psg |-> p, uvd |-> u, log |-> lg] :
            f \in {x \in faults : x.at \in {"none", "readlog", "reenable"}},
            e \in ExitCodes, out \in BOOLEAN, n \in nifs, p \in psgs,
            u \in uvds, lg \in logs}

\* In a run one component is installed, so only its renames can fail.
RunDll == "d3d11.dll"
RunFaults == {f \in CkFaults : f.dll \in {"-", RunDll}}

CkGeneratePrecombined ==
    CkOutcomes(RunFaults, BOOLEAN, BOOLEAN, {FALSE}, {NoLog, Log({}), Log({OutOfHandles})})
CkCompressPsg == CkOutcomes(RunFaults, {FALSE}, {FALSE}, {FALSE}, {Log({})})
CkBuildCdx == CkOutcomes(RunFaults, {FALSE}, {FALSE}, {FALSE}, {Log({})})
CkGeneratePrevis ==
    CkOutcomes(RunFaults, {FALSE}, {FALSE}, BOOLEAN, {NoLog, Log({}), Log({VisTaskFailed})})

XEditQuiet == [fault |-> "none", spawn |-> TRUE, log |-> NoLog, vanish |-> FALSE]
XEditOutcomesWith(texts) ==
    {[XEditQuiet EXCEPT !.fault = f] : f \in {"runlog", "plugins", "rmlog"}}
    \cup {[XEditQuiet EXCEPT !.spawn = FALSE]}
    \cup {[fault |-> f, spawn |-> TRUE, log |-> lg, vanish |-> v] :
            f \in {"none", "readlog"}, lg \in {NoLog} \cup {Log(t) : t \in texts},
            v \in BOOLEAN}

\* In a run the script ends without its completion line, with errors, or
\* without errors.
XEditOutcomes ==
    XEditOutcomesWith({{}, {Completed, "Error: "}, {Completed, CompletedNoErrors}})

ArchiveOutcomes ==
    {[launch |-> FALSE, success |-> FALSE, created |-> FALSE]}
    \cup [launch : {TRUE}, success : BOOLEAN, created : BOOLEAN]

ArchiveVisOutcomes ==
    [extract : ArchiveOutcomes, pack : ArchiveOutcomes, remove_ok : BOOLEAN]

StartOutcomes == [name_entered : BOOLEAN, typed : StageArgs \cup {NoArg}]
PluginOutcomes == [read_ok : BOOLEAN, answer : BOOLEAN, rename_ok : BOOLEAN]
CleanupOutcomes == {"none", "combined", "previs", "vis"}

-----------------------------------------------------------------------------
(* The steps of run().                                                     *)

DetermineStartingStage ==
    /\ pc = "start"
    /\ \E o \in StartOutcomes :
          LET r == determine_starting_stage(fs, args, o)
          IN  /\ start_stage' = r.stage
              /\ Returned(r.res, "verify")
    /\ UNCHANGED <<args, env, fs, ckpe, executed, launches, ck_call, tool_call, run_no, snapshot>>

VerifyEnvironmentStep ==
    /\ pc = "verify"
    /\ LET r == verify_environment(env, ckpe, args.use_bsarch)
       IN  /\ ckpe' = r.ckpe
           /\ Returned(r.res, "check_plugin")
    /\ UNCHANGED <<args, env, fs, start_stage, executed, launches, ck_call, tool_call, run_no,
                   snapshot>>

CheckPlugin ==
    /\ pc = "check_plugin"
    /\ \E o \in PluginOutcomes :
          LET r == check_plugin(fs, args, o)
          IN  /\ fs' = r.fs
              /\ Returned(r.res, "s1")
    /\ UNCHANGED <<args, env, ckpe, start_stage, executed, launches, ck_call, tool_call, run_no,
                   snapshot>>

StageGeneratePrecombines ==
    /\ pc = "s1"
    /\ IF stage_runs(start_stage, GeneratePrecombines, args.mode)
       THEN \E o \in CkGeneratePrecombined :
              StageCalled(GeneratePrecombines,
                          stage_generate_precombines(fs, args, ckpe.log_file, o), "s2")
       ELSE StageSkipped("s2")

StageMergePrecombines ==
    /\ pc = "s2"
    /\ IF stage_runs(start_stage, MergePrecombines, args.mode)
       THEN \E o \in XEditOutcomes :
              StageCalled(MergePrecombines, stage_merge_precombines(fs, o), "s3")
       ELSE StageSkipped("s3")

StageArchivePrecombines ==
    /\ pc = "s3"
    /\ IF stage_runs(start_stage, ArchivePrecombines, args.mode)
       THEN \E o \in ArchiveOutcomes :
              StageCalled(ArchivePrecombines,
                          stage_archive_precombines(fs, args, env.bsarch, o), "s4")
       ELSE StageSkipped("s4")

StageCompressPsg ==
    /\ pc = "s4"
    /\ IF stage_runs(start_stage, CompressPsg, args.mode)
       THEN \E o \in CkCompressPsg :
              StageCalled(CompressPsg, stage_compress_psg(fs, args, ckpe.log_file, o), "s5")
       ELSE StageSkipped("s5")

StageBuildCdx ==
    /\ pc = "s5"
    /\ IF stage_runs(start_stage, BuildCdx, args.mode)
       THEN \E o \in CkBuildCdx :
              StageCalled(BuildCdx, stage_build_cdx(fs, args, ckpe.log_file, o), "s6")
       ELSE StageSkipped("s6")

StageGeneratePrevis ==
    /\ pc = "s6"
    /\ IF stage_runs(start_stage, GeneratePrevis, args.mode)
       THEN \E o \in CkGeneratePrevis :
              StageCalled(GeneratePrevis,
                          stage_generate_previs(fs, args, ckpe.log_file, o), "s7")
       ELSE StageSkipped("s7")

StageMergePrevis ==
    /\ pc = "s7"
    /\ IF stage_runs(start_stage, MergePrevis, args.mode)
       THEN \E o \in XEditOutcomes :
              StageCalled(MergePrevis, stage_merge_previs(fs, o), "s8")
       ELSE StageSkipped("s8")

StageArchiveVis ==
    /\ pc = "s8"
    /\ IF stage_runs(start_stage, ArchiveVis, args.mode)
       THEN \E o \in ArchiveVisOutcomes :
              StageCalled(ArchiveVis, stage_archive_vis(fs, args, env.bsarch, o), "cleanup")
       ELSE StageSkipped("cleanup")

\* self.cleanup()?; Ok(())
Cleanup ==
    /\ pc = "cleanup"
    /\ \E o \in CleanupOutcomes :
          LET r == cleanup(fs, args, o)
          IN  /\ fs' = r.fs
              /\ result' = r.res
              /\ pc' = "done"
    /\ UNCHANGED <<args, env, ckpe, start_stage, executed, launches, ck_call, tool_call, run_no,
                   snapshot>>

-----------------------------------------------------------------------------
(* Initial states.                                                         *)

EmptyDisk ==
    [plugin |-> FALSE, seed |-> FALSE, combined |-> FALSE, previs |-> FALSE,
     psg |-> FALSE, csg |-> FALSE, cdx |-> FALSE, archive |-> NoArchive,
     precombined |-> NoDir, vis |-> NoDir, dlls |-> {}, disabled |-> {},
     ck_log |-> NoLog, unattended_log |-> NoLog]

\* The disks a run may find: the plugin or only its seed or neither, an
\* archive from an earlier build or none, the two directories absent, holding
\* generated files or holding only an unrelated file, and leftovers of an
\* earlier build.
RunDisks ==
    {[EmptyDisk EXCEPT !.plugin = ps[1], !.seed = ps[2], !.archive = ar,
                       !.precombined = pd, !.vis = vd, !.psg = pg, !.previs = pv,
                       !.combined = pv, !.dlls = {RunDll}] :
        ps \in {<<TRUE, FALSE>>, <<FALSE, TRUE>>, <<FALSE, FALSE>>},
        ar \in {NoArchive, Archive({<<Precombined, MeshNif>>})},
        pd \in {NoDir, Dir({NoteTxt}), Dir({MeshNif})},
        vd \in {NoDir, Dir({VisUvd})},
        pg \in BOOLEAN, pv \in BOOLEAN}

\* main() runs the builder with an explicit start stage only when a plugin
\* was named (main.rs 2285-2288).
\* <<no_prompt, keep_files, use_bsarch>>
RunFlags == {<<FALSE, FALSE, FALSE>>, <<TRUE, TRUE, FALSE>>, <<FALSE, FALSE, TRUE>>}
\* <<start_stage, plugin named>>
RunStarts == {<<st, TRUE>> : st \in StageArgs} \cup {<<NoArg, TRUE>>, <<NoArg, FALSE>>}
RunArgs ==
    {[mode |-> m, start_stage |-> st[1], plugin |-> st[2], no_prompt |-> fl[1],
      keep_files |-> fl[2], use_bsarch |-> fl[3]] :
        m \in BuildModes, fl \in RunFlags, st \in RunStarts}

GoodScript == [exists |-> TRUE, readable |-> TRUE, has_version |-> TRUE,
               version |-> MinBatchVersion]

GoodEnv ==
    [fo4edit |-> TRUE, fallout4_exe |-> TRUE, creation_kit |-> TRUE, winhttp |-> TRUE,
     archive2 |-> TRUE, configs |-> {NewIni}, scripts |-> <<GoodScript, GoodScript>>,
     config_readable |-> TRUE, config_readable_again |-> TRUE, log_setting |-> TRUE,
     handle |-> "true",
     bsarch |-> "None"]

\* Paths::new sets bsarch only with --use-bsarch (paths.rs 47-70).
RunEnvs(a) ==
    {[e EXCEPT !.bsarch = IF a.use_bsarch THEN "present" ELSE "None"] :
        e \in {GoodEnv, [GoodEnv EXCEPT !.winhttp = FALSE]}}

NoToolCall == [tool |-> "-"]

NoCall == [output_file |-> "-", returned |-> FALSE, ended |-> FALSE, exit |-> 0,
           output_exists |-> FALSE, renamed |-> {}]

Init ==
    /\ args \in RunArgs
    /\ env \in RunEnvs(args)
    /\ fs \in RunDisks
    /\ ckpe = InitialCkpe
    /\ pc = "start"
    /\ start_stage = NoStage
    /\ result = "none"
    /\ executed = <<>>
    /\ launches = <<>>
    /\ ck_call = NoCall
    /\ tool_call = NoToolCall
    /\ run_no = 1
    /\ snapshot = fs

Next ==
    \/ DetermineStartingStage
    \/ VerifyEnvironmentStep
    \/ CheckPlugin
    \/ StageGeneratePrecombines
    \/ StageMergePrecombines
    \/ StageArchivePrecombines
    \/ StageCompressPsg
    \/ StageBuildCdx
    \/ StageGeneratePrevis
    \/ StageMergePrevis
    \/ StageArchiveVis
    \/ Cleanup

Spec == Init /\ [][Next]_vars

-----------------------------------------------------------------------------
(* check_stage_prerequisites on its own: every stage, every build mode and *)
(* every combination of the artifacts the checks look at.                  *)

PrereqDirs(gen) == {NoDir, Dir({}), Dir({NoteTxt}), Dir({gen}), Dir({gen, NoteTxt})}

PrereqDisks ==
    {[EmptyDisk EXCEPT !.plugin = pl, !.precombined = pd, !.vis = vd, !.psg = pg,
                       !.previs = pv] :
        pl \in BOOLEAN, pd \in PrereqDirs(MeshNif), vd \in PrereqDirs(VisUvd),
        pg \in BOOLEAN, pv \in BOOLEAN}

PrereqArgs ==
    [mode : BuildModes, start_stage : {NoArg}, plugin : {TRUE}, no_prompt : {FALSE},
     keep_files : {FALSE}, use_bsarch : {FALSE}]

InitPrereq ==
    /\ args \in PrereqArgs
    /\ env = GoodEnv
    /\ fs \in PrereqDisks
    /\ ckpe = InitialCkpe
    /\ pc = "prereq_call"
    /\ start_stage \in 0..8
    /\ result = "none"
    /\ executed = <<>>
    /\ launches = <<>>
    /\ ck_call = NoCall
    /\ tool_call = NoToolCall
    /\ run_no = 1
    /\ snapshot = fs

CheckStagePrerequisites ==
    /\ pc = "prereq_call"
    /\ result' = check_stage_prerequisites(start_stage, fs, args.mode)
    /\ pc' = "prereq_returned"
    /\ UNCHANGED <<args, env, fs, ckpe, start_stage, executed, launches, ck_call, tool_call,
                   run_no, snapshot>>

SpecPrereq == InitPrereq /\ [][CheckStagePrerequisites]_vars

-----------------------------------------------------------------------------
(* run_creation_kit on its own: every set of installed components, with    *)
(* and without a log path, with a stale log or output file or none, and    *)
(* every fault and outcome of the process.                                 *)

OutputFiles == {CombinedObjectsEsp, PrevisEsp, GeometryCsg, PluginCdx}

CkDisks ==
    {[EmptyDisk EXCEPT !.plugin = TRUE, !.dlls = ds, !.ck_log = lg, !.cdx = st] :
        ds \in SUBSET DllNames, lg \in {NoLog, Log({})}, st \in BOOLEAN}

CkAllOutcomes == CkOutcomes(CkFaults, {FALSE}, {FALSE}, {FALSE}, {NoLog, Log({})})

InitCk ==
    /\ args \in PrereqArgs
    /\ env = GoodEnv
    /\ fs \in CkDisks
    /\ ckpe \in {InitialCkpe, [InitialCkpe EXCEPT !.log_file = "Some"]}
    /\ pc = "ck_call"
    /\ start_stage = NoStage
    /\ result = "none"
    /\ executed = <<>>
    /\ launches = <<>>
    /\ ck_call \in {[NoCall EXCEPT !.output_file = f] : f \in {GeometryCsg, PluginCdx}}
    /\ tool_call = NoToolCall
    /\ run_no = 1
    /\ snapshot = fs

RunCreationKit ==
    /\ pc = "ck_call"
    /\ \E o \in CkAllOutcomes :
          LET r == run_creation_kit(fs, ckpe.log_file, ck_call.output_file, o)
          IN  /\ fs' = r.fs
              /\ result' = r.res
              /\ ck_call' = [ck_call EXCEPT !.returned = TRUE, !.ended = r.launched,
                                !.exit = o.exit, !.output_exists = r.fs[ck_call.output_file],
                                !.renamed = r.renamed]
    /\ pc' = "ck_returned"
    /\ UNCHANGED <<args, env, ckpe, start_stage, executed, launches, tool_call, run_no,
                   snapshot>>

SpecCk == InitCk /\ [][RunCreationKit]_vars

-----------------------------------------------------------------------------
(* A run interrupted and resumed.  The first process starts at stage 0;    *)
(* the operator stops it when it is about to enter stage n and starts the  *)
(* tool again with --start-stage n on the disk the first process left.     *)

StagePc == <<"s1", "s2", "s3", "s4", "s5", "s6", "s7", "s8">>

InitResume ==
    /\ Init
    /\ args.start_stage = VerifyEnvironment
    /\ env.winhttp

Restart(n) ==
    /\ run_no = 1
    /\ pc = StagePc[n]
    /\ stage_runs(start_stage, n, args.mode)
    /\ args' = [args EXCEPT !.start_stage = n]
    /\ run_no' = 2
    /\ snapshot' = fs
    /\ ckpe' = InitialCkpe
    /\ pc' = "start"
    /\ start_stage' = NoStage
    /\ result' = "none"
    /\ executed' = <<>>
    /\ launches' = <<>>
    /\ UNCHANGED <<env, fs, ck_call, tool_call>>

NextResume ==
    \/ Next
    \/ \E n \in 1..8 : Restart(n)

SpecResume == InitResume /\ [][NextResume]_vars

-----------------------------------------------------------------------------
(* run_xedit_script step by step, called by stage_merge_precombines or     *)
(* stage_merge_previs: "xe_call" (lines 38-86), "xe_poll" (the loop at     *)
(* 96-98), "xe_kill" (104-105), "xe_read" (110-127), "xe_returned", then   *)
(* the caller's check and the `?` of run().  xEdit writes its log while    *)
(* the loop polls, or never; once written the log stays until the loop has *)
(* seen it, and may be gone again when it is read.                         *)

MaxPolls == 2

XEditStages == {MergePrecombines, MergePrevis}

ScriptOf(stage) ==
    IF stage = MergePrecombines THEN MergeCombinedScript ELSE MergePrevisScript

XEditDisks ==
    {[EmptyDisk EXCEPT !.plugin = TRUE, !.combined = pv, !.previs = pv,
                       !.vis = IF pv THEN Dir({VisUvd}) ELSE NoDir,
                       !.unattended_log = lg] :
        pv \in BOOLEAN, lg \in {NoLog, Log({Completed})}}

XEditCall(script) ==
    [tool |-> "xEdit", script |-> script, proc |-> "none", polls |-> 0,
     seen |-> FALSE, read |-> FALSE]

InitXEdit ==
    /\ args \in {a \in RunArgs : a.start_stage = NoArg /\ a.plugin /\ ~a.keep_files
                                    /\ ~a.use_bsarch /\ a.mode = "Clean"}
    /\ env = GoodEnv
    /\ fs \in XEditDisks
    /\ ckpe = [InitialCkpe EXCEPT !.log_file = "Some"]
    /\ pc = "xe_call"
    /\ start_stage \in XEditStages
    /\ result = "none"
    /\ executed = <<>>
    /\ launches = <<>>
    /\ ck_call = NoCall
    /\ tool_call = XEditCall(ScriptOf(start_stage))
    /\ run_no = 1
    /\ snapshot = fs

XEditUnchanged ==
    UNCHANGED <<args, env, ckpe, start_stage, executed, launches, ck_call, run_no, snapshot>>

XEditStart ==
    /\ pc = "xe_call"
    /\ \E o \in XEditOutcomes :
          LET st == xedit_start(fs, o)
          IN  /\ fs' = st.fs
              /\ IF st.spawned
                 THEN /\ pc' = "xe_poll"
                      /\ result' = result
                      /\ tool_call' = [tool_call EXCEPT !.proc = "running"]
                 ELSE /\ pc' = "xe_returned"
                      /\ result' = st.res
                      /\ tool_call' = tool_call
    /\ XEditUnchanged

\* One evaluation of the loop condition, and the sleep when it holds.
XEditPoll ==
    /\ pc = "xe_poll"
    /\ IF poll_done(fs.unattended_log.exists, tool_call.polls)
       THEN /\ pc' = "xe_kill"
            /\ tool_call' = [tool_call EXCEPT !.seen = fs.unattended_log.exists]
       ELSE /\ pc' = pc
            /\ tool_call' = [tool_call EXCEPT
                                !.polls = IF @ < MaxPolls THEN @ + 1 ELSE @]
    /\ UNCHANGED <<fs, result>>
    /\ XEditUnchanged

\* The xEdit process finishes the script and writes its log.
XEditWritesLog ==
    /\ pc = "xe_poll"
    /\ tool_call.proc = "running"
    /\ ~fs.unattended_log.exists
    /\ \E t \in XEditTexts : fs' = [fs EXCEPT !.unattended_log = Log(t)]
    /\ UNCHANGED <<pc, result, tool_call>>
    /\ XEditUnchanged

XEditKill ==
    /\ pc = "xe_kill"
    /\ tool_call' = [tool_call EXCEPT !.proc = kill_and_wait(@)]
    /\ pc' = "xe_read"
    /\ UNCHANGED <<fs, result>>
    /\ XEditUnchanged

\* The log is no longer where it was when it is read.
XEditLogVanishes ==
    /\ pc = "xe_read"
    /\ fs.unattended_log.exists
    /\ fs' = [fs EXCEPT !.unattended_log = NoLog]
    /\ UNCHANGED <<pc, result, tool_call>>
    /\ XEditUnchanged

XEditRead ==
    /\ pc = "xe_read"
    /\ \E fault \in {"none", "readlog"} :
          result' = check_completion(fs, fault)
    /\ tool_call' = [tool_call EXCEPT !.read = fs.unattended_log.exists]
    /\ pc' = "xe_returned"
    /\ UNCHANGED fs
    /\ XEditUnchanged

\* Back in the stage method and in run(): the stage's own check of the log
\* and the `?`.  result held what run_xedit_script returned and now holds
\* what run() has returned, if it has.
XEditReturns ==
    /\ pc = "xe_returned"
    /\ LET x == ToolReturn(result, fs, <<>>)
           r == IF x.res # "Ok" THEN x
                ELSE IF start_stage = MergePrecombines THEN merge_precombines_check(x)
                ELSE merge_previs_check(x)
       IN  /\ pc' = question_mark(r.res, StagePc[start_stage + 1])
           /\ result' = IF r.res = "Ok" THEN "none" ELSE r.res
    /\ executed' = Append(executed, start_stage)
    /\ UNCHANGED <<args, env, fs, ckpe, start_stage, launches, ck_call, tool_call,
                   run_no, snapshot>>

NextXEdit ==
    \/ XEditStart
    \/ XEditPoll
    \/ XEditWritesLog
    \/ XEditKill
    \/ XEditLogVanishes
    \/ XEditRead
    \/ XEditReturns

SpecXEdit == InitXEdit /\ [][NextXEdit]_vars

\* The steps of the program are taken when they can be; xEdit and the file
\* system owe nothing.
SpecXEditLive ==
    /\ SpecXEdit
    /\ WF_vars(XEditStart)
    /\ WF_vars(XEditPoll)
    /\ WF_vars(XEditKill)
    /\ WF_vars(XEditRead)
    /\ WF_vars(XEditReturns)

-----------------------------------------------------------------------------
(* Adding the vis folder to the plugin's archive, by stage_archive_vis or  *)
(* by add_to_archive, on the disks they may find: no archive or one with   *)
(* precombined meshes, other files or visibility data in it, the loose     *)
(* precombined directory absent or not.                                    *)

ArchiveContents ==
    {{<<Precombined, MeshNif>>}, {<<Precombined, NoteTxt>>},
     {<<Precombined, MeshNif>>, <<Precombined, NoteTxt>>}, {<<Vis, NoteTxt>>}}

ArchiveDisks ==
    {[EmptyDisk EXCEPT !.plugin = TRUE, !.previs = TRUE, !.archive = ar,
                       !.precombined = pd, !.vis = vd] :
        ar \in {NoArchive} \cup {Archive(c) : c \in ArchiveContents},
        pd \in {NoDir, Dir({MeshNif}), Dir({NoteTxt})},
        vd \in {Dir({VisUvd})}}

AddCall == [tool |-> "add_to_archive", res |-> "none", launched |-> <<>>]

InitArchive ==
    /\ args \in {a \in RunArgs : a.start_stage = ArchiveVis /\ ~a.use_bsarch /\ ~a.keep_files}
    /\ env = GoodEnv
    /\ fs \in ArchiveDisks
    /\ ckpe = [InitialCkpe EXCEPT !.log_file = "Some"]
    /\ pc \in {"s8", "add_call"}
    /\ start_stage = ArchiveVis
    /\ result = "none"
    /\ executed = <<>>
    /\ launches = <<>>
    /\ ck_call = NoCall
    /\ tool_call = IF pc = "add_call" THEN AddCall ELSE NoToolCall
    /\ run_no = 1
    /\ snapshot = fs

AddToArchive ==
    /\ pc = "add_call"
    /\ \E o \in ArchiveVisOutcomes :
          LET r == add_to_archive(fs, Vis, get_archive_qualifiers(args.mode), o)
          IN  /\ fs' = r.fs
              /\ result' = r.res
              /\ tool_call' = [tool_call EXCEPT !.res = r.res, !.launched = r.launched]
    /\ pc' = "add_returned"
    /\ UNCHANGED <<args, env, ckpe, start_stage, executed, launches, ck_call, run_no,
                   snapshot>>

NextArchive ==
    \/ StageArchiveVis
    \/ AddToArchive

SpecArchive == InitArchive /\ [][NextArchive]_vars

-----------------------------------------------------------------------------
(* cleanup on its own, on every combination of the files it may find.      *)

CleanupDisks ==
    {[EmptyDisk EXCEPT !.plugin = TRUE, !.combined = cb, !.previs = pv, !.vis = vd,
                       !.archive = ar, !.csg = cg, !.cdx = cg, !.precombined = pd] :
        cb \in BOOLEAN, pv \in BOOLEAN, vd \in {NoDir, Dir({VisUvd})},
        ar \in {NoArchive, Archive({<<Precombined, MeshNif>>, <<Vis, VisUvd>>})},
        cg \in BOOLEAN, pd \in {NoDir, Dir({MeshNif})}}

InitCleanup ==
    /\ args \in {[a EXCEPT !.keep_files = k] :
                    a \in {x \in RunArgs : x.start_stage = NoArg /\ x.plugin
                                              /\ x.mode = "Clean" /\ ~x.no_prompt},
                    k \in BOOLEAN}
    /\ env = GoodEnv
    /\ fs \in CleanupDisks
    /\ ckpe = [InitialCkpe EXCEPT !.log_file = "Some"]
    /\ pc = "cleanup"
    /\ start_stage = ArchiveVis
    /\ result = "none"
    /\ executed = <<ArchiveVis>>
    /\ launches = <<>>
    /\ ck_call = NoCall
    /\ tool_call = NoToolCall
    /\ run_no = 1
    /\ snapshot = fs

SpecCleanup == InitCleanup /\ [][Cleanup]_vars

-----------------------------------------------------------------------------
(* A run started again after a failure.  The first process ends with an    *)
(* Err; the operator starts the tool again on the disk it left, with       *)
(* --start-stage n.                                                        *)

Rerun(n) ==
    /\ run_no = 1
    /\ pc = "done"
    /\ result # "Ok"
    /\ args' = [args EXCEPT !.start_stage = n]
    /\ run_no' = 2
    /\ snapshot' = fs
    /\ ckpe' = InitialCkpe
    /\ pc' = "start"
    /\ start_stage' = NoStage
    /\ result' = "none"
    /\ executed' = <<>>
    /\ launches' = <<>>
    /\ UNCHANGED <<env, fs, ck_call, tool_call>>

\* The first run is one that gets past check_plugin: no archive yet.
InitRerun ==
    /\ InitResume
    /\ ~fs.archive.exists
    /\ ~args.no_prompt
    /\ args.mode = "Clean"

SpecRerun == InitRerun /\ [][Next \/ \E n \in 1..8 : Rerun(n)]_vars

-----------------------------------------------------------------------------
(* verify_environment check by check: "ve_check" while checks remain,      *)
(* "ve_returned" after the first Err or the final Ok.  The environment is  *)
(* any with up to two conditions unmet, any set of configuration files,    *)
(* and scripts that are good, missing, unreadable, unversioned or old.     *)

MaxUnmet == 2

VerifyFaults ==
    {"fo4edit", "fallout4_exe", "creation_kit", "winhttp", "archive2", "config_readable",
     "log_setting", "config_readable_again", "bsarch_none", "bsarch_missing"}

ScriptKinds ==
    {GoodScript, [GoodScript EXCEPT !.exists = FALSE], [GoodScript EXCEPT !.readable = FALSE],
     [GoodScript EXCEPT !.has_version = FALSE],
     [GoodScript EXCEPT !.version = MinBatchVersion - 1]}

VerifyEnvs ==
    {[fo4edit |-> "fo4edit" \notin u, fallout4_exe |-> "fallout4_exe" \notin u,
      creation_kit |-> "creation_kit" \notin u, winhttp |-> "winhttp" \notin u,
      archive2 |-> "archive2" \notin u, configs |-> cf, scripts |-> sc,
      config_readable |-> "config_readable" \notin u,
      config_readable_again |-> "config_readable_again" \notin u,
      log_setting |-> "log_setting" \notin u, handle |-> h,
      bsarch |-> IF "bsarch_none" \in u THEN "None"
                 ELSE IF "bsarch_missing" \in u THEN "missing" ELSE "present"] :
        u \in {x \in SUBSET VerifyFaults : Cardinality(x) <= MaxUnmet},
        cf \in SUBSET {NewIni, NewToml, OldIni},
        sc \in {<<GoodScript, GoodScript>>} \cup {<<k, GoodScript>> : k \in ScriptKinds}
                  \cup {<<GoodScript, k>> : k \in ScriptKinds},
        h \in {"true", "false", "missing"}}

InitVerify ==
    /\ args \in {a \in RunArgs : a.mode = "Clean" /\ a.start_stage = NoArg /\ a.plugin
                                  /\ ~a.keep_files}
    /\ env \in VerifyEnvs
    /\ fs = EmptyDisk
    /\ ckpe = InitialCkpe
    /\ pc = "ve_check"
    /\ start_stage = VerifyEnvironment
    /\ result = "none"
    /\ executed = <<>>
    /\ launches = <<>>
    /\ ck_call = NoCall
    /\ tool_call = [tool |-> "verify_environment", checked |-> <<>>, warned |-> {}]
    /\ run_no = 1
    /\ snapshot = fs

VerifyCheck ==
    /\ pc = "ve_check"
    /\ LET i == Len(tool_call.checked) + 1
           r == verify_check(VerifyOrder[i], env, ckpe, args.use_bsarch)
       IN  /\ ckpe' = r.ckpe
           /\ tool_call' = [tool_call EXCEPT !.checked = Append(@, VerifyOrder[i]),
                                             !.warned = @ \cup r.warn]
           /\ IF r.res # "Ok" THEN result' = r.res /\ pc' = "ve_returned"
              ELSE IF i = Len(VerifyOrder) THEN result' = "Ok" /\ pc' = "ve_returned"
              ELSE result' = result /\ pc' = pc
    /\ UNCHANGED <<args, env, fs, start_stage, executed, launches, ck_call, run_no, snapshot>>

SpecVerify == InitVerify /\ [][VerifyCheck]_vars

-----------------------------------------------------------------------------
(* The builder's own fields.  "new": PrevisbineBuilder::new derives the    *)
(* plugin names from --plugin; "start": determine_starting_stage, which    *)
(* asks for a plugin name when none was derived and replaces the three     *)
(* names; then the steps of run() as before.  tool_call holds the fields.  *)

MaxStemLen == 2

RECURSIVE SeqsUpTo(_, _)
SeqsUpTo(chars, n) ==
    IF n = 0 THEN {<<>>}
    ELSE SeqsUpTo(chars, n - 1)
            \cup {Append(q, ch) : q \in SeqsUpTo(chars, n - 1), ch \in chars}

\* What a name may end in: nothing, an extension in any case, something
\* that only looks like one.
Endings ==
    {<<>>, DotEsp, DotEsm, DotEsl, <<".", "E", "S", "P">>, <<".", "e", "S", "m">>,
     <<".", "e", "s">>, <<"e", "s", "p">>, <<".", "e", "s", "p", "x">>,
     <<".", "e", "s", "p", " ">>}

PluginTexts ==
    {stem \o e1 \o e2 : stem \in SeqsUpTo({"F", "."}, MaxStemLen), e1 \in Endings,
                        e2 \in Endings}

PromptLines == PluginTexts \cup {<<" ">> \o text \o <<" ">> : text \in PluginTexts}

BuilderCall(plugin) == [tool |-> "builder", cli |-> plugin, built |-> FALSE]

InitPlugin ==
    /\ args \in {a \in RunArgs : a.mode = "Clean" /\ a.start_stage \in {NoArg, MergePrevis}
                                  /\ a.plugin /\ ~a.keep_files /\ ~a.use_bsarch}
    /\ env = GoodEnv
    /\ fs = [EmptyDisk EXCEPT !.plugin = TRUE]
    /\ ckpe = InitialCkpe
    /\ pc = "new"
    /\ start_stage = NoStage
    /\ result = "none"
    /\ executed = <<>>
    /\ launches = <<>>
    /\ ck_call = NoCall
    /\ tool_call \in {BuilderCall(NoPlugin)}
                        \cup {BuilderCall(SomePlugin(text)) : text \in PluginTexts}
    /\ run_no = 1
    /\ snapshot = fs

\* main.rs 2282-2289: the builder is constructed; with no plugin name and a
\* start stage given main() lists the stages and exits without run().
New ==
    /\ pc = "new"
    /\ tool_call' = [tool |-> "builder", cli |-> tool_call.cli, built |-> TRUE,
                     prompted |-> FALSE, line |-> <<>>] @@ new(tool_call.cli)
    /\ ckpe' = InitialCkpe
    /\ IF new(tool_call.cli).plugin_name = <<>> /\ args.start_stage # NoArg
       THEN pc' = "done" /\ result' = "stages displayed"
       ELSE pc' = "start" /\ result' = result
    /\ UNCHANGED <<args, env, fs, start_stage, executed, launches, ck_call, run_no, snapshot>>

\* builder.rs 166-212 with the plugin names: the prompt for a name is
\* reached with no start stage given and plugin_name empty.
NameAnswered(asks, typed, line) ==
    LET p == prompt_for_plugin_name(line)
        r == determine_starting_stage(fs,
                 [args EXCEPT !.plugin = tool_call.plugin_name # <<>>],
                 [name_entered |-> p.res = "Ok", typed |-> typed])
    IN  /\ tool_call' =
              IF asks /\ p.res = "Ok"
              THEN [tool_call EXCEPT !.plugin_name = p.plugin_name,
                                     !.plugin_name_ext = p.plugin_name_ext,
                                     !.plugin_archive = p.plugin_archive,
                                     !.prompted = TRUE, !.line = line]
              ELSE IF asks THEN [tool_call EXCEPT !.prompted = TRUE, !.line = line]
              ELSE tool_call
        /\ start_stage' = r.stage
        /\ Returned(r.res, "verify")

DetermineStartingStageNamed ==
    /\ pc = "start"
    /\ tool_call.tool = "builder"
    /\ LET asks == args.start_stage = NoArg /\ tool_call.plugin_name = <<>>
       IN  \E typed \in StageArgs \cup {NoArg},
              line \in IF asks THEN PromptLines ELSE {<<>>} :
              NameAnswered(asks, typed, line)
    /\ UNCHANGED <<args, env, fs, ckpe, executed, launches, ck_call, run_no, snapshot>>

SpecPlugin == InitPlugin /\ [][New \/ DetermineStartingStageNamed]_vars

-----------------------------------------------------------------------------
(* The builder's fields over a whole run: construction, the name prompt,   *)
(* verification with each configuration variant, then the stages.          *)

ContextEnvs ==
    {[GoodEnv EXCEPT !.configs = c] : c \in {{NewIni}, {NewToml}, {OldIni}, {}}}

InitContext ==
    /\ args \in {a \in RunArgs : a.mode = "Clean" /\ a.start_stage = NoArg /\ a.plugin
                                  /\ ~a.keep_files /\ ~a.use_bsarch}
    /\ env \in ContextEnvs
    /\ fs \in {EmptyDisk, [EmptyDisk EXCEPT !.plugin = TRUE]}
    /\ ckpe = InitialCkpe
    /\ pc = "new"
    /\ start_stage = NoStage
    /\ result = "none"
    /\ executed = <<>>
    /\ launches = <<>>
    /\ ck_call = NoCall
    /\ tool_call \in {BuilderCall(NoPlugin), BuilderCall(SomePlugin(<<"F">>)),
                      BuilderCall(SomePlugin(<<"F">> \o DotEsm))}
    /\ run_no = 1
    /\ snapshot = fs

\* What the operator answers at the name prompt: nothing, blanks, a bare
\* name, a name with an extension between blanks.
ContextLines == {<<>>, <<" ">>, <<"F">>, <<" ", "F">> \o DotEsl \o <<" ">>}

DetermineStartingStageAnswered ==
    /\ pc = "start"
    /\ tool_call.tool = "builder"
    /\ LET asks == args.start_stage = NoArg /\ tool_call.plugin_name = <<>>
       IN  \E typed \in StageArgs \cup {NoArg},
              line \in IF asks THEN ContextLines ELSE {<<>>} :
              NameAnswered(asks, typed, line)
    /\ UNCHANGED <<args, env, fs, ckpe, executed, launches, ck_call, run_no, snapshot>>

NextContext ==
    \/ New
    \/ DetermineStartingStageAnswered
    \/ VerifyEnvironmentStep
    \/ CheckPlugin
    \/ StageGeneratePrecombines
    \/ StageMergePrecombines
    \/ StageArchivePrecombines
    \/ StageCompressPsg
    \/ StageBuildCdx
    \/ StageGeneratePrevis
    \/ StageMergePrevis
    \/ StageArchiveVis
    \/ Cleanup

SpecContext == InitContext /\ [][NextContext]_vars

-----------------------------------------------------------------------------
(* The processes of a run: an xEdit stage step by step, with its process   *)
(* alive from spawn() to wait(), then the stages after it, whose tools are *)
(* run with Command::status() or Command::output(), which return when the  *)
(* process has exited.                                                     *)

ProcDisks ==
    {[EmptyDisk EXCEPT !.plugin = TRUE, !.combined = TRUE, !.psg = TRUE,
                       !.precombined = Dir({MeshNif})],
     [EmptyDisk EXCEPT !.plugin = TRUE, !.previs = TRUE, !.vis = Dir({VisUvd}),
                       !.archive = Archive({<<Precombined, MeshNif>>})]}

InitProcs ==
    /\ args \in {a \in RunArgs : a.start_stage = NoArg /\ a.plugin /\ ~a.keep_files
                                    /\ ~a.no_prompt}
    /\ env \in RunEnvs(args)
    /\ fs \in ProcDisks
    /\ ckpe = [InitialCkpe EXCEPT !.log_file = "Some"]
    /\ pc = "xe_call"
    /\ start_stage = IF fs.previs THEN MergePrevis ELSE MergePrecombines
    /\ result = "none"
    /\ executed = <<>>
    /\ launches = <<>>
    /\ ck_call = NoCall
    /\ tool_call = XEditCall(ScriptOf(start_stage))
    /\ run_no = 1
    /\ snapshot = fs

NextProcs ==
    \/ XEditStart
    \/ XEditPoll
    \/ XEditWritesLog
    \/ XEditKill
    \/ XEditLogVanishes
    \/ XEditRead
    \/ XEditReturns
    \/ StageArchivePrecombines
    \/ StageCompressPsg
    \/ StageBuildCdx
    \/ StageGeneratePrevis
    \/ StageMergePrevis
    \/ StageArchiveVis
    \/ Cleanup

SpecProcs == InitProcs /\ [][NextProcs]_vars

-----------------------------------------------------------------------------
(* The two invokers called with a tool log of an earlier invocation on     *)
(* disk.  The line StaleLine stands for what the earlier invocation wrote; *)
(* no tool writes it again.                                                *)

StaleLine == "written by an earlier invocation"

StaleCkDisks ==
    {[d EXCEPT !.ck_log = lg] :
        d \in CkDisks, lg \in {NoLog, Log({StaleLine}), Log({StaleLine, OutOfHandles})}}

StaleXEditDisks ==
    {[d EXCEPT !.unattended_log = lg] :
        d \in XEditDisks, lg \in {NoLog, Log({StaleLine}), Log({StaleLine, Completed})}}

InitStale ==
    /\ args \in PrereqArgs
    /\ env = GoodEnv
    /\ pc \in {"ck_call", "xe_call"}
    /\ fs \in IF pc = "ck_call" THEN StaleCkDisks ELSE StaleXEditDisks
    /\ ckpe \in IF pc = "ck_call"
                THEN {InitialCkpe, [InitialCkpe EXCEPT !.log_file = "Some"]}
                ELSE {[InitialCkpe EXCEPT !.log_file = "Some"]}
    /\ start_stage \in IF pc = "ck_call" THEN {NoStage} ELSE XEditStages
    /\ result = "none"
    /\ executed = <<>>
    /\ launches = <<>>
    /\ ck_call \in IF pc = "ck_call"
                   THEN {[NoCall EXCEPT !.output_file = f] : f \in {GeometryCsg, PluginCdx}}
                   ELSE {NoCall}
    /\ tool_call = IF pc = "ck_call" THEN NoToolCall ELSE XEditCall(ScriptOf(start_stage))
    /\ run_no = 1
    /\ snapshot = fs

NextStale ==
    \/ RunCreationKit
    \/ XEditStart
    \/ XEditPoll
    \/ XEditWritesLog
    \/ XEditKill
    \/ XEditLogVanishes
    \/ XEditRead
    \/ XEditReturns

SpecStale == InitStale /\ [][NextStale]_vars

-----------------------------------------------------------------------------
(* stage_compress_psg on its own, on disks with and without the .psg file  *)
(* and with and without a .csg file of an earlier run.  tool_call records  *)
(* whether the Creation Kit process of the call wrote the .csg file.       *)

PsgDisks ==
    {[EmptyDisk EXCEPT !.plugin = TRUE, !.psg = pg, !.csg = cg, !.dlls = ds, !.ck_log = lg] :
        pg \in BOOLEAN, cg \in BOOLEAN, ds \in {{}, {RunDll}}, lg \in {NoLog, Log({})}}

PsgCall == [tool |-> "CompressPSG", process_ran |-> FALSE, wrote_csg |-> FALSE]

InitPsg ==
    /\ args \in {a \in RunArgs : a.mode = "Clean" /\ a.start_stage = CompressPsg}
    /\ env \in RunEnvs(args)
    /\ fs \in PsgDisks
    /\ ckpe = [InitialCkpe EXCEPT !.log_file = "Some"]
    /\ pc = "psg_call"
    /\ start_stage = CompressPsg
    /\ result = "none"
    /\ executed = <<>>
    /\ launches = <<>>
    /\ ck_call = NoCall
    /\ tool_call = PsgCall
    /\ run_no = 1
    /\ snapshot = fs

StageCompressPsgCall ==
    /\ pc = "psg_call"
    /\ \E o \in CkCompressPsg :
          LET r == stage_compress_psg(fs, args, ckpe.log_file, o)
          IN  /\ fs' = r.fs
              /\ result' = r.res
              /\ launches' = launches \o Launched(CompressPsg, r.launched)
              /\ tool_call' = [tool_call EXCEPT !.process_ran = r.launched # <<>>,
                                                !.wrote_csg = r.launched # <<>> /\ o.output]
    /\ pc' = "psg_returned"
    /\ UNCHANGED <<args, env, ckpe, start_stage, executed, ck_call, run_no, snapshot>>

SpecPsg == InitPsg /\ [][StageCompressPsgCall]_vars

-----------------------------------------------------------------------------
(* Properties of check_stage_prerequisites (SpecPrereq).                   *)

\* The prerequisite table, row by row, with a directory counted as filled
\* by the predicate handed in.
TableRow(stage, disk, build_mode, filled(_, _)) ==
    CASE stage = VerifyEnvironment   -> TRUE
      [] stage = GeneratePrecombines -> disk.plugin
      [] stage = MergePrecombines    -> filled(disk.precombined, MeshNif)
      [] stage = ArchivePrecombines  -> filled(disk.precombined, MeshNif)
      [] stage = CompressPsg         -> build_mode = "Clean" /\ disk.psg
      [] stage = BuildCdx            -> build_mode = "Clean"
      [] stage = GeneratePrevis      -> disk.plugin
      [] stage = MergePrevis         -> filled(disk.vis, VisUvd) /\ disk.previs
      [] stage = ArchiveVis          -> filled(disk.vis, VisUvd)

NonEmpty(dir, generated) == dir.exists /\ dir.files # {}

HoldsGenerated(dir, generated) == dir.exists /\ generated \in dir.files

\* C4 as stated: check_stage_prerequisites succeeds exactly when the row of
\* its stage holds, a directory row holding when the directory is non-empty.
C4_RowNonEmpty ==
    pc = "prereq_returned" =>
        (result = "Ok" <=> TableRow(start_stage, fs, args.mode, NonEmpty))

\* C4 amended: check_stage_prerequisites succeeds exactly when the row of its
\* stage holds, a directory row holding when the directory contains a file
\* whose name ends in .nif (precombined) or .uvd (vis).
C4_RowHoldsGenerated ==
    pc = "prereq_returned" =>
        (result = "Ok" <=> TableRow(start_stage, fs, args.mode, HoldsGenerated))

C4_Witness ==
    /\ pc = "prereq_returned"
    /\ start_stage = MergePrecombines
    /\ fs.precombined = Dir({NoteTxt})
    /\ result = ErrNoPrecombined

-----------------------------------------------------------------------------
(* Properties of run_creation_kit (SpecCk).                                *)

\* C9 as stated: once the process has ended the invocation succeeds exactly
\* when the declared output file exists, whatever the exit code.
C9_OutputAloneDecides ==
    (pc = "ck_returned" /\ ck_call.ended) =>
        (result = "Ok" <=> ck_call.output_exists)

\* C9 amended: once the process has ended, a missing output file makes the
\* invocation fail whatever the exit code, and with the output file present
\* the invocation succeeds whatever the exit code unless reading the tool's
\* log or renaming a component back fails.
C9_OutputDecidesUnlessIo ==
    (pc = "ck_returned" /\ ck_call.ended) =>
        /\ ~ck_call.output_exists => result \in {ErrNoOutput, ErrReadCkLog}
        /\ ck_call.output_exists => result \in {"Ok", ErrReadCkLog, ErrReenable}
        /\ result = ErrReadCkLog => ckpe.log_file = "Some" /\ fs.ck_log.exists

C9_Witness ==
    /\ pc = "ck_returned"
    /\ ck_call.ended
    /\ ck_call.exit # 0
    /\ ck_call.output_exists
    /\ result = "Ok"

\* C10: when run_creation_kit has returned, on whatever path, no component
\* it renamed still carries the disabled suffix.
C10_AllReenabled ==
    pc = "ck_returned" => ck_call.renamed \cap fs.disabled = {}

\* run_creation_kit returned "output missing" and left a component disabled.
C10_LeftDisabled ==
    /\ pc = "ck_returned"
    /\ ck_call.ended
    /\ result = ErrNoOutput
    /\ RunDll \in ck_call.renamed \cap fs.disabled

-----------------------------------------------------------------------------
(* Properties of run() (Spec).                                             *)

InScope(build_mode) ==
    IF build_mode = "Clean" THEN 1..8 ELSE (1..8) \ {CompressPsg, BuildCdx}

RECURSIVE Ascending(_)
Ascending(S) ==
    IF S = {} THEN <<>>
    ELSE LET m == CHOOSE x \in S : \A y \in S : x <= y
         IN  <<m>> \o Ascending(S \ {m})

\* The stages a run from start stage s has executed when it stands before
\* stage k, and all of them for k = 9.
ExpectedBefore(s, build_mode, k) ==
    Ascending({n \in InScope(build_mode) : s <= n /\ n < k})

IsPrefix(a, b) == Len(a) <= Len(b) /\ SubSeq(b, 1, Len(a)) = a

Failed == result \notin {"none", "Ok"}

\* C1: for every start stage the stages executed are the in-scope stages
\* from the start stage on, in ascending order and none skipped: before
\* stage k exactly those below k have been executed, a run that reaches
\* cleanup has executed all of them, and a run that failed a prefix of them.
C1_InScopeStagesAscending ==
    /\ start_stage = NoStage => executed = <<>>
    /\ start_stage # NoStage =>
          /\ IsPrefix(executed, ExpectedBefore(start_stage, args.mode, 9))
          /\ \A k \in 1..8 : pc = StagePc[k] =>
                executed = ExpectedBefore(start_stage, args.mode, k)
          /\ (pc = "cleanup" \/ (pc = "done" /\ result = "Ok")) =>
                executed = ExpectedBefore(start_stage, args.mode, 9)

C1_Witness ==
    /\ pc = "done"
    /\ result = "Ok"
    /\ start_stage = ArchivePrecombines
    /\ args.mode = "Filtered"
    /\ executed = <<ArchivePrecombines, GeneratePrevis, MergePrevis, ArchiveVis>>

\* C2: a failure of a verification or of a stage ends the run at once: run
\* has returned as soon as a failure is recorded, and from then on no stage
\* executes, no tool is launched and the result stays that failure.
C2_FailureAborts ==
    /\ [](result # "none" => pc = "done")
    /\ [][Failed => UNCHANGED <<result, executed, launches, fs, pc>>]_vars
    /\ [][(~Failed /\ Failed') =>
            /\ Len(executed') <= Len(executed) + 1
            /\ \A i \in 1..Len(executed) : executed'[i] = executed[i]]_vars

C2_Witness ==
    /\ pc = "done"
    /\ result = ErrNoPrecombinesMade
    /\ executed = <<GeneratePrecombines>>
    /\ Len(launches) = 1

\* C3 as stated: CompressPsg and BuildCdx execute only in Clean mode and
\* their being out of scope in the other modes never makes the run fail.
C3_NeverFailsOutOfScope ==
    /\ \A i \in 1..Len(executed) :
          executed[i] \in {CompressPsg, BuildCdx} => args.mode = "Clean"
    /\ result \notin {ErrPsgCleanOnly, ErrCdxCleanOnly}

\* C3 amended: CompressPsg and BuildCdx execute only in Clean mode; in the
\* other modes the run fails on their being out of scope only when one of
\* them is the start stage given on the command line, before anything is
\* executed, and a run with any other start passes them without failing.
C3_CleanOnlyStages ==
    /\ \A i \in 1..Len(executed) :
          executed[i] \in {CompressPsg, BuildCdx} => args.mode = "Clean"
    /\ result \in {ErrPsgCleanOnly, ErrCdxCleanOnly} =>
          /\ args.mode # "Clean"
          /\ args.start_stage \in {CompressPsg, BuildCdx}
          /\ executed = <<>>
          /\ launches = <<>>
    /\ (args.mode # "Clean" /\ pc \in {"s6", "s7", "s8", "cleanup"}
            /\ start_stage \in 0..5) =>
          /\ result = "none"
          /\ executed = ExpectedBefore(start_stage, args.mode,
                           CHOOSE k \in 6..9 : pc = (StagePc \o <<"cleanup">>)[k])

C3_Witness ==
    /\ pc = "done"
    /\ result = "Ok"
    /\ args.mode = "Filtered"
    /\ start_stage = CompressPsg
    /\ executed = <<GeneratePrevis, MergePrevis, ArchiveVis>>

\* C5: a start stage given on the command line outside 0..8 is rejected:
\* run returns the invalid-stage failure and no verification, no stage and
\* no external process has been executed.
C5_InvalidStageRejected ==
    (args.start_stage # NoArg /\ args.start_stage \notin 0..8 /\ pc # "start") =>
        /\ from_i32(args.start_stage) = NoStage
        /\ pc = "done"
        /\ result = ErrInvalidStage
        /\ start_stage = NoStage
        /\ executed = <<>>
        /\ launches = <<>>
        /\ ckpe = InitialCkpe
        /\ fs = snapshot

C5_Witness ==
    /\ args.start_stage = 9
    /\ pc = "done"
    /\ result = ErrInvalidStage

\* C6: every tool a stage launches is launched with the prerequisite row of
\* that stage met.
C6_ToolOnlyWithRowMet ==
    \A i \in 1..Len(launches) : launches[i].row_met

\* The operator picked MergePrevis at the prompt and the editor was started
\* although the row of MergePrevis does not hold.
C6_LaunchedUnmet ==
    /\ args.start_stage = NoArg
    /\ start_stage = MergePrevis
    /\ launches # <<>>
    /\ launches[1].stage = MergePrevis
    /\ ~launches[1].row_met

\* C7: a run restarted with --start-stage n on the disk left by the stages
\* before n stands at the entry of stage n with that disk unchanged, and so
\* has executed stage n when it returns.
C7_ResumeReachesStage ==
    run_no = 2 =>
        /\ (pc \in {"verify", "check_plugin"} \/ pc = StagePc[args.start_stage]) =>
              fs = snapshot
        /\ pc = "done" => (executed # <<>> /\ executed[1] = args.start_stage)

\* The restarted run returned without executing any stage.
C7_ResumeRejected ==
    /\ run_no = 2
    /\ args.mode = "Clean"
    /\ args.start_stage = GeneratePrevis
    /\ pc = "done"
    /\ result = ErrHasArchive
    /\ executed = <<>>

\* C8: when the prerequisite row of the start stage given on the command
\* line does not hold on the disk the run found, run returns a prerequisite
\* failure without having launched a process, executed a stage or changed
\* the disk; in Clean mode with CompressPsg and no geometry file it is the
\* missing-geometry failure.
C8_UnmetStartLaunchesNothing ==
    (/\ args.start_stage \in 0..8
     /\ ~TableRow(args.start_stage, snapshot, args.mode, HoldsGenerated)
     /\ pc # "start") =>
        /\ pc = "done"
        /\ result \in PrereqErrors
        /\ ((args.mode = "Clean" /\ args.start_stage = CompressPsg) => result = ErrNoPsg)
        /\ executed = <<>>
        /\ launches = <<>>
        /\ ckpe = InitialCkpe
        /\ fs = snapshot

C8_Witness ==
    /\ args.mode = "Clean"
    /\ args.start_stage = CompressPsg
    /\ ~snapshot.psg
    /\ pc = "done"
    /\ result = ErrNoPsg
    /\ launches = <<>>

-----------------------------------------------------------------------------
(* Properties of run_xedit_script (SpecXEdit, SpecXEditLive).              *)

XEditReturned == pc = "xe_returned" /\ tool_call.proc # "none"

\* C11: run_xedit_script succeeds only if the unattended log exists when it
\* is read and contains the completion marker; a log that is missing when
\* it is read or that lacks the marker makes the invocation fail.
C11_CompletionMarkerRequired ==
    XEditReturned =>
        /\ result = "Ok" =>
              /\ tool_call.read
              /\ fs.unattended_log.exists
              /\ contains(fs.unattended_log, Completed)
        /\ ~fs.unattended_log.exists =>
              result = "ERROR - FO4Edit script did not produce a log file"
        /\ (fs.unattended_log.exists /\ ~contains(fs.unattended_log, Completed)) =>
              result \in {"ERROR - FO4Edit script failed", "Error reading xEdit log file"}

C11_Witness ==
    /\ XEditReturned
    /\ fs.unattended_log = Log({"Error: "})
    /\ result = "ERROR - FO4Edit script failed"

\* C12: the MergePrevis stage does not fail on a log that contains the
\* completion marker and lacks the "no errors" marker.
C12_NoErrorsMarkerOnlyWarns ==
    (/\ executed # <<>>
     /\ executed[Len(executed)] = MergePrevis
     /\ fs.unattended_log.exists
     /\ contains(fs.unattended_log, Completed)
     /\ ~contains(fs.unattended_log, CompletedNoErrors)) =>
        result # "ERROR - Merge Previs script did not complete successfully"

\* MergePrevis ended the run on a log with the completion marker.
C12_StageFailed ==
    /\ pc = "done"
    /\ executed # <<>>
    /\ executed[Len(executed)] = MergePrevis
    /\ contains(fs.unattended_log, Completed)
    /\ ~contains(fs.unattended_log, CompletedNoErrors)
    /\ result = "ERROR - Merge Previs script did not complete successfully"

\* C13: the polling loop has no timeout.  It is left only when the log
\* exists; whoever is past the loop has seen the log; once the log has
\* appeared the invocation returns and run() goes on or ends; and while the
\* log does not appear the invocation stays in the loop, so no later stage
\* starts.
C13_PollsUntilLogAppears ==
    /\ [][(pc = "xe_poll" /\ pc' # "xe_poll") => fs.unattended_log.exists]_vars
    /\ []((tool_call.proc # "none" /\ pc \notin {"xe_call", "xe_poll"}) => tool_call.seen)
    /\ [](pc \in {"s3", "s8"} => (tool_call.seen /\ tool_call.read))
    /\ ((pc = "xe_poll" /\ fs.unattended_log.exists) ~> (pc \in {"s3", "s8", "done"}))

C13_Witness ==
    /\ pc = "s8"
    /\ tool_call.polls = 1
    /\ tool_call.seen
    /\ result = "none"

\* C14: the spawned process is terminated and reaped only after the log has
\* appeared and before the log is read; it is not running when the
\* invocation has returned.
C14_KilledBetweenLogAndRead ==
    /\ [][(tool_call.proc = "running" /\ tool_call.proc' # "running") =>
            (fs.unattended_log.exists /\ tool_call.seen /\ ~tool_call.read')]_vars
    /\ [][(pc = "xe_read" /\ pc' # pc) => tool_call.proc = "reaped"]_vars
    /\ [](pc \in {"xe_returned", "s3", "s8", "done"} => tool_call.proc # "running")

C14_Witness ==
    /\ pc = "xe_returned"
    /\ tool_call.proc = "reaped"
    /\ tool_call.read
    /\ result = "Ok"

-----------------------------------------------------------------------------
(* Properties of adding a folder to the archive (SpecArchive).             *)

OpsOf(launched) == [i \in 1..Len(launched) |-> <<launched[i].tool, launched[i].op>>]

PackVisOnly == <<<<"Archive2", <<"pack", {Vis}, get_archive_qualifiers(args.mode)>>>>>>

AddedByStage == pc = "cleanup" /\ result = "none"

AddedByFunction == pc = "add_returned" /\ result = "Ok"

\* C15: with no archive on disk, adding the vis folder is exactly the one
\* pack invocation of pack(vis) with the same qualifiers: add_to_archive
\* returns what run_archive returns, stage_archive_vis launches that one
\* process, and neither touches the precombined directory.
C15_AddOnEmptyIsPack ==
    ~snapshot.archive.exists =>
        /\ pc = "add_returned" =>
              \E o \in ArchiveOutcomes :
                  run_archive(snapshot, {Vis}, get_archive_qualifiers(args.mode), o)
                      = ToolReturn(result, fs, tool_call.launched)
        /\ pc \in {"cleanup", "done"} =>
              /\ launches = <<>> \/ OpsOf(launches) = PackVisOnly
              /\ fs.precombined = snapshot.precombined

\* stage_archive_vis found no archive, packed the loose precombined
\* directory together with vis and removed it.
C15_PackedLooseMeshes ==
    /\ pc = "cleanup"
    /\ ~snapshot.archive.exists
    /\ snapshot.precombined = Dir({MeshNif})
    /\ OpsOf(launches) =
          <<<<"Archive2", <<"pack", {Precombined, Vis}, get_archive_qualifiers(args.mode)>>>>>>
    /\ fs.precombined = NoDir

PreviousAndNew == snapshot.archive.content \cup {<<Vis, f>> : f \in snapshot.vis.files}

OnDisk(c) ==
    IF c[1] = Precombined THEN c[2] \in fs.precombined.files ELSE c[2] \in fs.vis.files

\* C16: with an archive on disk, a successful add leaves an
\* archive holding what the previous archive held and the new folder, and
\* none of the extracted files on disk.
C16_UnionWhateverTheArchive ==
    (snapshot.archive.exists /\ (AddedByStage \/ AddedByFunction)) =>
        /\ fs.archive.content = PreviousAndNew
        /\ \A c \in snapshot.archive.content : ~OnDisk(c)

\* The archive ArchivePrecombines leaves: only precombined content, a .nif
\* among it, and the loose directory removed.
HoldsMeshesOnly(disk) ==
    /\ disk.archive.exists
    /\ <<Precombined, MeshNif>> \in disk.archive.content
    /\ \A c \in disk.archive.content : c[1] = Precombined
    /\ ~disk.precombined.exists

\* With the archive ArchivePrecombines leaves, a successful add leaves an
\* archive holding what the previous archive held and the new folder, and
\* none of the extracted files on disk; with an archive that holds no
\* precombined .nif (and none loose on disk) the new archive holds no
\* precombined content and the extracted precombined files stay on disk.
UnionAfterArchivePrecombines ==
    (snapshot.archive.exists /\ (AddedByStage \/ AddedByFunction)) =>
        /\ HoldsMeshesOnly(snapshot) =>
              /\ fs.archive = Archive(PreviousAndNew)
              /\ \A c \in snapshot.archive.content : ~OnDisk(c)
              /\ fs.precombined = NoDir
        /\ (/\ <<Precombined, MeshNif>> \notin snapshot.archive.content
            /\ ~directory_has_files(snapshot.precombined, ExtNif)) =>
              /\ \A c \in fs.archive.content : c[1] = Vis
              /\ \A c \in snapshot.archive.content : c[1] = Precombined => OnDisk(c)

\* A successful add on an archive that held a precombined file other than
\* a .nif: the file is gone from the archive and lies extracted on disk.
C16_ContentLost ==
    /\ AddedByStage \/ AddedByFunction
    /\ snapshot.archive = Archive({<<Precombined, NoteTxt>>})
    /\ snapshot.precombined = NoDir
    /\ <<Precombined, NoteTxt>> \notin fs.archive.content
    /\ fs.precombined = Dir({NoteTxt})

-----------------------------------------------------------------------------
(* Properties of the archiver back-ends and of cleanup (Spec, SpecCleanup). *)

\* A run that executed every stage and returned Ok.
FullRunOk ==
    /\ pc = "done"
    /\ result = "Ok"
    /\ start_stage \in {VerifyEnvironment, GeneratePrecombines}

\* What the run generated, packed: the precombined directory and the vis
\* directory as the stages filled them.
GeneratedMeshes == snapshot.precombined.files \cup {MeshNif}

GeneratedArchive ==
    {<<Precombined, f>> : f \in GeneratedMeshes}
        \cup {<<Vis, f>> : f \in snapshot.vis.files \cup {VisUvd}}

CleanupErrors == {"Error removing file", "Error removing directory"}

\* C18: when every stage has succeeded, run() returns Ok whatever cleanup
\* does.
C18_CleanupNeverMasks ==
    [][(pc = "cleanup" /\ pc' = "done") => result' = "Ok"]_vars

\* Every stage succeeded and run() returned the failure of cleanup.
C18_CleanupFailureReturned ==
    /\ pc = "done"
    /\ executed = ExpectedBefore(VerifyEnvironment, "Clean", 9)
    /\ args.mode = "Clean"
    /\ result = "Error removing file"

OutsideCleanup(disk) ==
    [disk EXCEPT !.combined = FALSE, !.previs = FALSE, !.vis = NoDir]

\* C19: cleanup changes nothing but CombinedObjects.esp, Previs.esp and the
\* vis directory; with keep_files set it changes nothing at all and returns
\* Ok; without it a cleanup that returns Ok has removed all three, and one
\* that fails has removed those before the one it failed on.
C19_CleanupFrame ==
    [][pc = "cleanup" =>
          /\ OutsideCleanup(fs') = OutsideCleanup(fs)
          /\ args.keep_files => (fs' = fs /\ result' = "Ok")
          /\ (~args.keep_files /\ result' = "Ok") =>
                (~fs'.combined /\ ~fs'.previs /\ fs'.vis = NoDir)
          /\ (~args.keep_files /\ result' # "Ok") =>
                /\ result' \in CleanupErrors
                /\ fs'.combined => (fs' = fs)
                /\ fs'.previs => (fs'.vis = fs.vis)
                /\ fs'.vis \in {fs.vis, NoDir}]_vars

C19_Witness ==
    /\ pc = "done"
    /\ ~args.keep_files
    /\ result = "Ok"
    /\ snapshot.combined /\ snapshot.previs /\ snapshot.vis.exists
    /\ snapshot.archive.exists /\ snapshot.csg
    /\ fs = OutsideCleanup(snapshot)

\* C20: cleanup is reached exactly when the last stage in scope has been
\* executed, for every start stage, and applying cleanup again to the disk
\* it left, with the same removal failing if one failed, gives the same
\* disk and the same result.
C20_CleanupIdempotent ==
    /\ [](pc = "cleanup" =>
            /\ start_stage \in 0..8
            /\ executed = ExpectedBefore(start_stage, args.mode, 9)
            /\ result = "none")
    /\ [][pc = "cleanup" =>
            \A o \in CleanupOutcomes :
                cleanup(fs, args, o) = ToolReturn(result', fs', <<>>) =>
                    cleanup(fs', args, o) = ToolReturn(result', fs', <<>>)]_vars
    /\ []((pc = "done" /\ result = "Ok") =>
            cleanup(fs, args, "none") = ToolReturn("Ok", fs, <<>>))

C20_Witness ==
    /\ pc = "done"
    /\ result = "Ok"
    /\ start_stage = ArchiveVis
    /\ ~args.keep_files
    /\ ~fs.combined /\ ~fs.previs /\ ~fs.vis.exists

-----------------------------------------------------------------------------
(* Properties of the end of a run: disabled components, artifacts.         *)

\* C21: after a run whose cleanup has completed, no component in the game
\* directory carries the suffix -PJMdisabled.
C21_NoneDisabledAfterCleanup ==
    (pc = "done" /\ result = "Ok") => fs.disabled = {}

\* A second run completed its cleanup on the disk a failed Creation Kit
\* call left, and the component that call disabled is still disabled.
C21_StillDisabled ==
    /\ run_no = 2
    /\ pc = "done"
    /\ result = "Ok"
    /\ RunDll \in fs.disabled
    /\ RunDll \notin fs.dlls

-----------------------------------------------------------------------------
(* Properties of environment verification within run() (Spec).             *)

\* C22: in every run verify_environment is executed once, after the start
\* stage is determined and before check_plugin, any stage and any external
\* process; stages are entered and processes launched only after it has
\* returned Ok and back-filled the log path; when it fails the run ends
\* with its Err and no stage runs.
C22_VerifiedOnceBeforeStages ==
    /\ [][/\ pc' = "verify" => pc = "start"
          /\ pc = "verify" =>
                /\ pc' \in {"check_plugin", "done"}
                /\ executed = <<>> /\ launches = <<>>
                /\ executed' = <<>> /\ launches' = <<>>
                /\ pc' = "done" => (result' # "Ok" /\ fs' = fs)
                /\ pc' = "check_plugin" => ckpe'.log_file = "Some"]_vars
    /\ []((executed # <<>> \/ launches # <<>>) =>
            (ckpe.log_file = "Some" /\ pc \notin {"start", "verify"}))
    /\ []((pc = "done" /\ ckpe.log_file = "None") => (executed = <<>> /\ launches = <<>>))

C22_Witness ==
    /\ pc = "done"
    /\ start_stage = MergePrevis
    /\ ~env.winhttp
    /\ result = "ERROR - CKPE not installed. You may not get a successful Patch without it"
    /\ executed = <<>>
    /\ launches = <<>>

-----------------------------------------------------------------------------
(* Properties of verify_environment (SpecVerify).                          *)

\* What makes each check of verify_environment fail, read off the
\* environment, and the errors that belong to it.
Unmet(name) ==
    CASE name = "fo4edit"        -> ~env.fo4edit
      [] name = "fallout4_exe"   -> ~env.fallout4_exe
      [] name = "creation_kit"   -> ~env.creation_kit
      [] name = "winhttp"        -> ~env.winhttp
      [] name = "archive2"       -> ~env.archive2
      [] name = "config"         -> env.configs = {}
      [] name = "scripts"        ->
            \E i \in 1..2 :
                \/ ~env.scripts[i].exists
                \/ /\ env.scripts[i].readable
                   /\ (~env.scripts[i].has_version
                          \/ env.scripts[i].version < MinBatchVersion)
      [] name = "log_setting"    -> ~env.config_readable \/ ~env.log_setting
      [] name = "handle_setting" -> ~env.config_readable_again
      [] name = "bsarch"         -> args.use_bsarch /\ env.bsarch # "present"

ErrorsOf(name) ==
    CASE name = "fo4edit"        -> {"ERROR - FO4Edit not found"}
      [] name = "fallout4_exe"   -> {"ERROR - Fallout4.exe not found"}
      [] name = "creation_kit"   ->
            {"ERROR - CreationKit.exe not found. Creation Kit must be installed"}
      [] name = "winhttp"        ->
            {"ERROR - CKPE not installed. You may not get a successful Patch without it"}
      [] name = "archive2"       ->
            {"ERROR - Archive2.exe not found. Creation Kit not properly installed"}
      [] name = "config"         ->
            {"ERROR - CKPE not installed properly. No configuration file found"}
      [] name = "scripts"        ->
            {"ERROR - FO4Edit Script not found",
             "ERROR - Could not determine version of FO4Edit Script",
             "ERROR - FO4Edit Script is outdated. Please update."}
      [] name = "log_setting"    ->
            {"Error opening or parsing the configuration file",
             "ERROR - CK not set for logging redirection."}
      [] name = "handle_setting" -> {"Error opening or parsing the configuration file"}
      [] name = "bsarch"         ->
            {"ERROR - BSArch enabled but path not specified",
             "ERROR - BSArch enabled but not found"}

VerifyReturned == pc = "ve_returned"

C24_LogSettingHardHandleSoft ==
    /\ (VerifyReturned /\ ~env.log_setting) => result # "Ok"
    /\ (VerifyReturned /\ ~env.log_setting /\ Len(tool_call.checked) >= 8
           /\ env.config_readable) =>
          result = "ERROR - CK not set for logging redirection."
    /\ (VerifyReturned /\ result = "Ok") => ckpe.log_file = "Some"
    /\ ckpe.log_file = "Some" <=>
          /\ Len(tool_call.checked) >= 8
          /\ env.log_setting /\ env.config_readable
    /\ VerifyReturned =>
          \A h \in {"true", "false", "missing"} :
              verify_environment([env EXCEPT !.handle = h], InitialCkpe, args.use_bsarch)
                  = [res |-> result, ckpe |-> ckpe]
    /\ (VerifyReturned /\ result # "Ok"
           /\ tool_call.checked[Len(tool_call.checked)] = "handle_setting") =>
          ~env.config_readable_again
    /\ (Len(tool_call.checked) >= 9 /\ env.config_readable_again) =>
          (tool_call.warned = {} <=> env.handle = "true")

C24_Witness ==
    /\ VerifyReturned
    /\ result = "Ok"
    /\ env.handle = "missing"
    /\ tool_call.warned # {}
    /\ ckpe.log_file = "Some"

\* The three variants: file name, handle-limit key, log-path key.
Variants ==
    <<[ini_file |-> "CreationKitPlatformExtended.ini",
       handle_setting |-> "bBSPointerHandleExtremly", log_setting |-> "sOutputFile"],
      [ini_file |-> "CreationKitPlatformExtended.toml",
       handle_setting |-> "bBSPointerHandleExtremly", log_setting |-> "sOutputFile"],
      [ini_file |-> "fallout4_test.ini",
       handle_setting |-> "BSHandleRefObjectPatch", log_setting |-> "OutputFile"]>>

ActiveVariant == [f \in {"ini_file", "handle_setting", "log_setting"} |-> ckpe[f]]

Detected == Len(tool_call.checked) >= 6 /\ ~(Len(tool_call.checked) = 6 /\ Failed)

\* C25: detection probes CreationKitPlatformExtended.ini, then
\* CreationKitPlatformExtended.toml, then fallout4_test.ini and selects the
\* first that exists; after a successful detection the file name and both
\* keys of the settings are those of that one variant; detection fails
\* exactly when none of the three files exists.
C25_FirstExistingVariant ==
    /\ Detected =>
          \E i \in 1..3 :
              /\ Variants[i].ini_file \in env.configs
              /\ \A j \in 1..(i - 1) : Variants[j].ini_file \notin env.configs
              /\ ActiveVariant = Variants[i]
              /\ \A j \in 1..3 : ActiveVariant = Variants[j] => j = i
    /\ (Len(tool_call.checked) = 6 /\ Failed) <=>
          (Len(tool_call.checked) >= 6 /\ env.configs = {})
    /\ (Len(tool_call.checked) = 6 /\ Failed) =>
          result = "ERROR - CKPE not installed properly. No configuration file found"

C25_Witness ==
    /\ Detected
    /\ env.configs = {"CreationKitPlatformExtended.toml", "fallout4_test.ini"}
    /\ ckpe.ini_file = "CreationKitPlatformExtended.toml"
    /\ ckpe.log_setting = "sOutputFile"

-----------------------------------------------------------------------------
(* Properties of the plugin names (SpecPlugin) and of the builder's fields *)
(* during a run (SpecContext).                                             *)

Built == tool_call.tool = "builder" /\ tool_call.built

\* str ends with .esp, .esm or .esl in any case.
EndsWithExtension(str) ==
    /\ Len(str) >= 4
    /\ str[Len(str) - 3] = "."
    /\ str[Len(str) - 2] \in {"e", "E"}
    /\ str[Len(str) - 1] \in {"s", "S"}
    /\ str[Len(str)] \in {"p", "P", "m", "M", "l", "L"}

WithoutExtension(str) == SubSeq(str, 1, Len(str) - 4)

DerivedFrom(input) ==
    IF EndsWithExtension(input)
    THEN /\ tool_call.plugin_name_ext = input
         /\ tool_call.plugin_name = WithoutExtension(input)
    ELSE /\ tool_call.plugin_name = input
         /\ tool_call.plugin_name_ext = input \o <<".", "e", "s", "p">>

NameFromPrompt == Built /\ tool_call.prompted /\ trim(tool_call.line) # <<>>

NameFromCli == Built /\ tool_call.cli.some /\ ~NameFromPrompt

\* C26: an input that ends with .esp, .esm or .esl in any case is kept as
\* the name with extension and gives the base name by removing those four
\* characters; any other input is the base name and gets .esp appended.
\* The input is the --plugin text, or the line typed at the prompt without
\* the blanks around it.
C26_NamesDerivedFromInput ==
    /\ NameFromCli => DerivedFrom(tool_call.cli.text)
    /\ NameFromPrompt => DerivedFrom(trim(tool_call.line))

C26_Witness ==
    /\ NameFromCli
    /\ tool_call.cli.text = <<"F", ".", "E", "S", "P">>
    /\ tool_call.plugin_name = <<"F">>
    /\ tool_call.plugin_name_ext = <<"F", ".", "E", "S", "P">>

\* C27: every plugin identity the builder holds has a base name without
\* extension, a file name that ends with a recognized extension, and the
\* archive name base name + " - Main.ba2".
C27_BaseNeverHasExtension ==
    Built =>
        /\ ~EndsWithExtension(tool_call.plugin_name)
        /\ EndsWithExtension(tool_call.plugin_name_ext)
        /\ tool_call.plugin_archive =
              tool_call.plugin_name \o <<" ", "-", " ", "M", "a", "i", "n", ".", "b", "a", "2">>

\* C27 amended: the archive name is always base name + " - Main.ba2"; once
\* a name was given on the command line or at the prompt, the file name
\* ends with a recognized extension and the base name is the file name
\* without its last extension, so that a base name ends with an extension
\* exactly when the input carried two; with no name given the three names
\* are those of the empty base name until the prompt replaces them.
C27_BaseIsNameWithoutLastExtension ==
    Built =>
        /\ tool_call.plugin_archive =
              tool_call.plugin_name \o <<" ", "-", " ", "M", "a", "i", "n", ".", "b", "a", "2">>
        /\ (NameFromCli \/ NameFromPrompt) =>
              /\ EndsWithExtension(tool_call.plugin_name_ext)
              /\ tool_call.plugin_name = WithoutExtension(tool_call.plugin_name_ext)
              /\ EndsWithExtension(tool_call.plugin_name) <=>
                    LET input == IF NameFromPrompt THEN trim(tool_call.line)
                                 ELSE tool_call.cli.text
                    IN  /\ EndsWithExtension(input)
                        /\ EndsWithExtension(WithoutExtension(input))
        /\ ~(NameFromCli \/ NameFromPrompt) =>
              /\ tool_call.plugin_name = <<>>
              /\ tool_call.plugin_name_ext = <<>>

C27_Witness ==
    /\ NameFromPrompt
    /\ tool_call.line = <<" ", "F", ".", "e", "s", "p", ".", "e", "S", "m", " ">>
    /\ tool_call.plugin_name = <<"F", ".", "e", "s", "p">>
    /\ tool_call.plugin_archive =
          <<"F", ".", "e", "s", "p", " ", "-", " ", "M", "a", "i", "n", ".", "b", "a", "2">>

-----------------------------------------------------------------------------
(* Properties of single stages within run() (Spec).                        *)

FilteredFromGenerate ==
    /\ args.mode = "Filtered"
    /\ start_stage = GeneratePrecombines
    /\ ~directory_has_files(fs.precombined, ExtNif)
    /\ ~directory_has_files(fs.vis, ExtUvd)

\* C28: in Filtered mode, started at GeneratePrecombines with no precombined
\* meshes and no visibility files on disk, the Creation Kit is started with
\* "filtered all"; the stage succeeds when the Creation Kit call succeeds,
\* meshes were made and the handle array did not overflow, whether or not
\* the geometry file exists; and after the stage run() executes
\* MergePrecombines.
C28_FilteredSkipsPsgCheck ==
    /\ [][(pc = "s1" /\ FilteredFromGenerate) =>
            /\ executed' = <<GeneratePrecombines>>
            /\ \A i \in 1..Len(launches') :
                  /\ launches'[i].tool = "CreationKit"
                  /\ launches'[i].op = <<"GeneratePrecombined", "filtered all">>
            /\ Len(launches') <= 1
            /\ pc' \in {"s2", "done"}
            /\ pc' = "s2" =>
                  /\ Len(launches') = 1
                  /\ result' = "none"
                  /\ fs'.combined
                  /\ directory_has_files(fs'.precombined, ExtNif)
            /\ pc' = "done" =>
                  result' # "ERROR - GeneratePrecombined failed to create psg file"
            /\ (Len(launches') = 1 /\ fs'.combined /\ directory_has_files(fs'.precombined, ExtNif)
                   /\ fs'.disabled = {} /\ ~contains(fs'.ck_log, OutOfHandles)) =>
                  pc' = "s2"]_vars
    /\ [][(pc = "s2" /\ args.mode = "Filtered" /\ start_stage = GeneratePrecombines) =>
            executed' = <<GeneratePrecombines, MergePrecombines>>]_vars

C28_Witness ==
    /\ pc = "s3"
    /\ args.mode = "Filtered"
    /\ start_stage = GeneratePrecombines
    /\ executed = <<GeneratePrecombines, MergePrecombines>>
    /\ ~fs.psg
    /\ launches[1].op = <<"GeneratePrecombined", "filtered all">>

\* C29: a run from stage 0 or 1 that returns Ok leaves the plugin and the
\* archive on disk and, in Clean mode, the compressed geometry file and the
\* index file.
C29_FinalArtifactsExist ==
    FullRunOk =>
        /\ fs.plugin
        /\ fs.archive.exists
        /\ args.mode = "Clean" => (fs.csg /\ fs.cdx)

\* A run with BSArch returned Ok and there is no archive.
C29_NoArchiveAfterSuccess ==
    /\ FullRunOk
    /\ args.use_bsarch
    /\ executed = ExpectedBefore(start_stage, args.mode, 9)
    /\ \E i \in 1..Len(launches) : launches[i].tool = "BSArch"
    /\ ~fs.archive.exists

\* With Archive2 the artifacts are there; with BSArch all but the archive.
FinalArtifactsButBsarch ==
    FullRunOk =>
        /\ fs.plugin
        /\ ~args.use_bsarch => fs.archive.exists
        /\ args.mode = "Clean" => (fs.csg /\ fs.cdx)

Names(t) == <<t.plugin_name, t.plugin_name_ext, t.plugin_archive>>

VariantKeys(c) == <<c.handle_setting, c.log_setting>>

LogPaths(t) == <<t.logfile, t.unattended_logfile>>

\* C30: once the builder is constructed, no step of the run changes the
\* arguments (BuildMode), the plugin names, the configuration-variant keys or
\* the two log paths; only log_file changes, in verification, from None.
C30_OnlyLogPointerChanges ==
    [][Built =>
          /\ args' = args
          /\ Names(tool_call') = Names(tool_call)
          /\ VariantKeys(ckpe') = VariantKeys(ckpe)
          /\ LogPaths(tool_call') = LogPaths(tool_call)
          /\ ckpe'.log_file # ckpe.log_file => (pc = "verify" /\ ckpe.log_file = "None")]_vars

\* Once the builder is constructed the arguments and the two log paths never
\* change; the three plugin names change only in determine_starting_stage,
\* when they were empty and the prompt is answered; the variant keys and the
\* variant's file name change only in verification, from the default variant
\* to one found on disk;
\* log_file changes only in verification, from None, and a verification that
\* succeeds sets it.
C30_NamesKeysAndLogPointerChange ==
    [][Built =>
          /\ args' = args
          /\ LogPaths(tool_call') = LogPaths(tool_call)
          /\ Names(tool_call') # Names(tool_call) =>
                /\ pc = "start"
                /\ Names(tool_call) = <<<<>>, <<>>, MainBa2>>
                /\ ~tool_call.prompted /\ tool_call'.prompted
                /\ trim(tool_call'.line) # <<>>
          /\ (VariantKeys(ckpe') # VariantKeys(ckpe) \/ ckpe'.ini_file # ckpe.ini_file) =>
                /\ pc = "verify"
                /\ VariantKeys(ckpe) = VariantKeys(InitialCkpe)
                /\ ckpe.ini_file = NewIni
                /\ ckpe'.ini_file \in env.configs
          /\ ckpe'.log_file # ckpe.log_file => (pc = "verify" /\ ckpe.log_file = "None")
          /\ (pc = "verify" /\ pc' = "check_plugin") =>
                (ckpe.log_file = "None" /\ ckpe'.log_file = "Some")]_vars

\* A run that asked for the plugin name, found the old variant and ended in
\* success: names, keys and log_file differ from those of construction, the
\* log path is still the one derived from the empty name.
C30_Witness ==
    /\ Built
    /\ pc = "done" /\ result = "Ok"
    /\ executed # <<>>
    /\ tool_call.prompted /\ tool_call.plugin_name # <<>>
    /\ ckpe.ini_file = OldIni /\ VariantKeys(ckpe) # VariantKeys(InitialCkpe)
    /\ ckpe.log_file = "Some"
    /\ tool_call.logfile = DotLog

ScriptsChecked == Len(tool_call.checked) >= 7

ScriptsAccepted == ScriptsChecked /\ ~(Len(tool_call.checked) = 7 /\ Failed)

\* The script's text was read and its BatchVersion is at or above the minimum.
VersionAtLeastMinimum(script) ==
    script.readable /\ script.has_version /\ script.version >= MinBatchVersion

\* C31: the scripts check of verify_environment passes if and only if each of
\* the two scripts exists and the version parsed from its text is at or above
\* the minimum; a script below the minimum or without a determinable version
\* fails it.
C31_ScriptAcceptedIffVersioned ==
    ScriptsChecked =>
        (ScriptsAccepted <=>
            \A i \in 1..2 : env.scripts[i].exists /\ VersionAtLeastMinimum(env.scripts[i]))

\* verify_environment returned Ok with a script that exists and could not be
\* opened, so that no version was read from it.
C31_UnreadableScriptAccepted ==
    /\ VerifyReturned
    /\ result = "Ok"
    /\ \E i \in 1..2 : env.scripts[i].exists /\ ~env.scripts[i].readable

\* What the code does: a script is accepted when it exists and, if it can be
\* opened, its version is at or above the minimum.
ScriptAcceptedUnlessReadAndOld ==
    ScriptsChecked =>
        (ScriptsAccepted <=>
            \A i \in 1..2 :
                /\ env.scripts[i].exists
                /\ env.scripts[i].readable => VersionAtLeastMinimum(env.scripts[i]))

\* C32: at most one process started by the run is alive at any time: the
\* xEdit process is alive only between its spawn and the kill-and-wait of
\* the same call, and whenever a later stage starts a process the xEdit
\* process has been reaped.
C32_OneProcessAtATime ==
    /\ [](tool_call.proc = "running" => pc \in {"xe_poll", "xe_kill"})
    /\ [](pc \notin {"xe_call", "xe_poll", "xe_kill"} => tool_call.proc \in {"none", "reaped"})
    /\ [][Len(launches') > Len(launches) => tool_call.proc = "reaped"]_vars

\* A later stage has started its tool after the xEdit process was reaped.
C32_Witness ==
    /\ tool_call.proc = "reaped"
    /\ executed # <<>>
    /\ Len(launches) >= 2
    /\ launches[1].stage > executed[1]

\* C33: both invokers delete the log of an earlier invocation before they
\* start the process: after a Creation Kit call that started the process the
\* log at the configured path is not the earlier one, and from the spawn of
\* xEdit on (polling, kill, read, return) the unattended log on disk is not
\* the earlier one, so the poll is ended and the completion check is made
\* with a log written during the call.
C33_LogIsOfThisInvocation ==
    /\ (pc = "ck_returned" /\ ck_call.ended /\ ckpe.log_file = "Some") =>
          ~contains(fs.ck_log, StaleLine)
    /\ (tool_call.tool = "xEdit" /\ tool_call.proc # "none") =>
          ~contains(fs.unattended_log, StaleLine)
    /\ (tool_call.tool = "xEdit" /\ (tool_call.seen \/ tool_call.read)) =>
          tool_call.proc # "none"

\* Both cases: a call of each invoker that found an earlier log, started
\* its process and came back with a log on disk.
C33_Witness ==
    \/ /\ pc = "ck_returned" /\ ck_call.ended /\ ckpe.log_file = "Some"
       /\ snapshot.ck_log.exists /\ fs.ck_log.exists
    \/ /\ pc = "xe_returned" /\ tool_call.read
       /\ snapshot.unattended_log.exists /\ fs.unattended_log.exists

ExtractionFailed ==
    result \in {"Archive2 extraction failed", "Failed to execute Archive2 extraction"}

AddReturned == pc \in {"add_returned", "cleanup", "done"}

\* C34: ArchiveVis and add_to_archive on an existing archive never lose what
\* the archive held: every file it held is in the archive or extracted on
\* disk, also after a failure; after a failed extraction the archive is as
\* it was; the precombined directory that held extracted files is gone only
\* after a successful repack.
C34_PackedContentKept ==
    (snapshot.archive.exists /\ AddReturned) =>
        /\ \A c \in snapshot.archive.content : c \in fs.archive.content \/ OnDisk(c)
        /\ ExtractionFailed => fs = snapshot
        /\ ~fs.archive.exists =>
              (Failed /\ \A c \in snapshot.archive.content : OnDisk(c))
        /\ (/\ fs.archive # snapshot.archive
            /\ \E c \in snapshot.archive.content : c[1] = Precombined /\ ~OnDisk(c)) =>
              (~Failed /\ fs.archive.exists)

\* The repack failed after the old archive was removed: no archive, and what
\* it held lies extracted on disk.
C34_Witness ==
    /\ snapshot.archive.exists /\ AddReturned
    /\ result \in {"Archive2 failed", "Archive was not created"}
    /\ ~fs.archive.exists
    /\ snapshot.archive.content # {}
    /\ \A c \in snapshot.archive.content : OnDisk(c)

\* The run has completed a stage and stands before stage k, which is in
\* scope for the build mode.
BeforeNextStage(k) ==
    /\ pc = StagePc[k]
    /\ k \in InScope(args.mode)
    /\ executed # <<>>

FromTheFirstStage == start_stage \in {VerifyEnvironment, GeneratePrecombines}

\* C35: in a run from the first stage, whenever a stage has completed
\* successfully the prerequisite row of the next in-scope stage holds: after
\* GeneratePrecombines the precombined directory holds a .nif and, in Clean
\* mode, the geometry file exists until CompressPsg has run; after
\* GeneratePrevis the vis directory holds a .uvd and Previs.esp exists.
C35_NextRowHolds ==
    FromTheFirstStage =>
        /\ \A k \in 2..8 :
              BeforeNextStage(k) => TableRow(k, fs, args.mode, HoldsGenerated)
        /\ (args.mode = "Clean" /\ pc \in {"s2", "s3", "s4"}) => fs.psg
        /\ pc = "s7" => (HoldsGenerated(fs.vis, VisUvd) /\ fs.previs)

\* A Clean run from the first stage stands before CompressPsg with the
\* geometry file on disk.
C35_Witness ==
    /\ FromTheFirstStage
    /\ args.mode = "Clean"
    /\ BeforeNextStage(CompressPsg)
    /\ executed = <<GeneratePrecombines, MergePrecombines, ArchivePrecombines>>
    /\ fs.psg

\* The same for a run from any start stage.
NextRowHoldsFromAnyStart ==
    \A k \in 2..8 : BeforeNextStage(k) => TableRow(k, fs, args.mode, HoldsGenerated)

ErrPrecombinedNotEmpty == "ERROR - Precombine directory (Data\\meshes\\precombined) not empty"

ErrVisNotEmpty == "ERROR - Previs directory (Data\\vis) not empty"

\* The stage's call returns the error and nothing else has happened: no
\* process, no file deleted, the disk as it was.
FailsUntouched(errors) ==
    /\ pc' = "done"
    /\ result' \in errors
    /\ fs' = fs
    /\ launches' = launches

\* C36: GeneratePrecombines called with a .nif in meshes\precombined or a
\* .uvd in vis, and GeneratePrevis called with a .uvd in vis, return the
\* not-empty error without starting the Creation Kit and without deleting
\* CombinedObjects.esp, the .psg file or Previs.esp; the disk is unchanged.
C36_NotEmptyFailsUntouched ==
    [][/\ (/\ pc = "s1"
           /\ stage_runs(start_stage, GeneratePrecombines, args.mode)
           /\ HoldsGenerated(fs.precombined, MeshNif) \/ HoldsGenerated(fs.vis, VisUvd)) =>
              FailsUntouched({ErrPrecombinedNotEmpty, ErrVisNotEmpty})
       /\ (/\ pc = "s6"
           /\ stage_runs(start_stage, GeneratePrevis, args.mode)
           /\ HoldsGenerated(fs.vis, VisUvd)) =>
              FailsUntouched({ErrVisNotEmpty})]_vars

\* GeneratePrevis found a .uvd file: the run ended with the error, with
\* Previs.esp of the earlier run still on disk and no process started.
C36_Witness ==
    /\ pc = "done"
    /\ result = ErrVisNotEmpty
    /\ executed = <<GeneratePrevis>>
    /\ launches = <<>>
    /\ fs.previs
    /\ HoldsGenerated(fs.vis, VisUvd)
    /\ fs = snapshot

PsgReturned == pc = "psg_returned"

\* C37: stage_compress_psg removes the .psg file only after the Creation Kit
\* process of the call has written the .csg file, and when the stage fails
\* the .psg file is as it was.
C37_PsgRemovedOnlyWhenReplaced ==
    PsgReturned =>
        /\ (snapshot.psg /\ ~fs.psg) => (tool_call.wrote_csg /\ fs.csg)
        /\ result # "Ok" => fs.psg = snapshot.psg

\* The stage returned Ok and removed the .psg file although the Creation Kit
\* wrote no .csg file: the .csg on disk is the one of an earlier run.
C37_PsgRemovedForStaleCsg ==
    /\ PsgReturned
    /\ result = "Ok"
    /\ snapshot.psg /\ ~fs.psg
    /\ tool_call.process_ran /\ ~tool_call.wrote_csg
    /\ snapshot.csg /\ fs.csg

\* What the code ensures: the .psg file is removed only when the stage
\* returns Ok with a .csg file on disk, written by this call or found from
\* before it, and a failing stage leaves the .psg file as it was.
PsgRemovedOnlyWithCsgOnDisk ==
    PsgReturned =>
        /\ (snapshot.psg /\ ~fs.psg) =>
              (result = "Ok" /\ fs.csg /\ (tool_call.wrote_csg \/ snapshot.csg))
        /\ result # "Ok" => fs.psg = snapshot.psg
        /\ ~snapshot.psg => (result = ErrNoPsg /\ launches = <<>> /\ fs = snapshot)

PluginCheckFails(errors) == pc' = "done" /\ result' \in errors /\ fs' = fs

PluginMissing == ~fs.archive.exists /\ ~fs.plugin

BootstrapPrompted == PluginMissing /\ fs.seed /\ ~args.no_prompt

BootstrapDone == pc' = "s1" /\ fs' = [fs EXCEPT !.seed = FALSE, !.plugin = TRUE]

\* What check_plugin does in every case but the prompted bootstrap.
PluginCheckWithoutPrompt ==
    /\ pc' = "s1" => (~fs'.archive.exists /\ fs'.plugin)
    /\ fs.archive.exists => PluginCheckFails({ErrHasArchive})
    /\ (~fs.archive.exists /\ fs.plugin) => (pc' = "s1" /\ fs' = fs)
    /\ (PluginMissing /\ ~fs.seed) =>
          PluginCheckFails({"ERROR - Specified Plugin or xPrevisPatch does not exist"})
    /\ (PluginMissing /\ fs.seed /\ args.no_prompt) => PluginCheckFails({ErrNoPlugin})

\* C38: check_plugin succeeds only with no archive and with the plugin file
\* on disk when it returns; with the plugin missing it fails if the seed is
\* missing or prompts are disabled; at the prompt it either fails as aborted
\* by the user with the disk unchanged or creates the plugin from the seed.
C38_PluginCheckOutcomes ==
    [][pc = "check_plugin" =>
          /\ PluginCheckWithoutPrompt
          /\ BootstrapPrompted =>
                (PluginCheckFails({"Aborted by user"}) \/ BootstrapDone)]_vars

\* The same, with the other outcomes of the prompted bootstrap: the answer
\* cannot be read, or the operator accepts and renaming the seed fails; each
\* is returned as an error with the disk unchanged.
C38_PluginCheckOutcomesOrRenameError ==
    [][pc = "check_plugin" =>
          /\ PluginCheckWithoutPrompt
          /\ BootstrapPrompted =>
                \/ PluginCheckFails({"Aborted by user"})
                \/ BootstrapDone
                \/ PluginCheckFails({"Error reading input", "Error renaming xPrevisPatch.esp"})]_vars

\* The operator accepted: the run is past check_plugin with the plugin made
\* from the seed.
C38_Witness ==
    /\ pc = "s1"
    /\ ~snapshot.plugin /\ snapshot.seed /\ ~args.no_prompt
    /\ fs = [snapshot EXCEPT !.seed = FALSE, !.plugin = TRUE]

====
